---- MODULE Spec2Model ----
(***************************************************************************)
(* ccmonitor: the ingestion and aggregation engine.                        *)
(*                                                                         *)
(* The model follows server/src/services/transcript-parser.ts (parseFile,  *)
(* processEntry, processUserEntry, processAssistantEntry),                 *)
(* server/src/services/token-calculator.ts (calculateCost, extractTokens), *)
(* server/src/db/repository.ts (the Store methods), server/src/db/schema.ts *)
(* (the constraints of the four relations), the event processor            *)
(* (processHookEvent) and the POST /api/events route.                      *)
(*                                                                         *)
(* Timestamps are natural numbers (ISO-8601 strings compare the same way), *)
(* 0 stands for an absent timestamp.  Money is counted in units of 1e-8    *)
(* USD so that token * price-per-million is an exact integer.              *)
(***************************************************************************)
EXTENDS Integers, Sequences, FiniteSets, TLC

(* ---------------------------- bounds ----------------------------------- *)
\* most lines the producer appends to the watched files in one run
MaxAppends == 2
\* the largest token count of a usage handed to calculateCost, besides the
\* usage of the worked example
MaxTokens == 2
\* the longest day series asked of getCostsByDay
MaxDays == 3
\* most times the process dies in the middle of a pass and is started again
MaxCrashes == 1
\* most records the writer processes handle together in one run
MaxWrites == 2
\* most rows of the events relation
MaxEvents == 2
\* the most file-system notifications the watcher receives in one run
MaxNotifications == 3

(* ---------------------------- values ----------------------------------- *)
\* a numeric field that is absent (undefined) in a JS object / NULL in a row
Absent == 0 - 1
\* an absent string field (undefined / null)
NoStr == "null"

OrZero(x) == IF x = Absent THEN 0 ELSE x

Paths == {"/a/s1.jsonl", "/b/s2.jsonl"}
SessionIds == {"s1", "s2"}

\* the clock readings new Date() can give; later than every record timestamp
Nows == {3}

\* Timestamps are ISO-8601 strings and the code compares them as strings; a
\* timestamp of the model is the rank of its string in that order.  Ranks 1, 2
\* and 3 are strings as toISOString() writes them, with milliseconds
\* ("...T10:00:00.700Z"); SecondsStamp is a string a client wrote without
\* milliseconds, in the second of the clock reading 3 ("...T10:00:00Z"): as a
\* string it follows every millisecond string of its second.
SecondsStamp == 4
\* the instant a timestamp denotes, in half steps of the rank
Instant(ts) == IF ts = SecondsStamp THEN 5 ELSE 2 * ts

(* ------------------------ transcript lines ----------------------------- *)
\* One line of a transcript file.  json = FALSE: JSON.parse throws on it;
\* blank = TRUE: the line is empty or whitespace only; len is its length in
\* bytes without the newline.  The other fields are those of the parsed
\* TranscriptEntry: usage.present = FALSE is an assistant message without a
\* usage object; tools are the names of its tool_use blocks; content is the
\* length in characters of the text the parser assembles from message.content.
\* torn tells how the producer wrote the line: "no" in one write, "partial"
\* only its first bytes so far, "completed" finished after a pass had read it
\* partial.
NoUsage ==
  [present |-> FALSE, input_tokens |-> Absent, output_tokens |-> Absent,
   cache_creation_input_tokens |-> Absent, cache_read_input_tokens |-> Absent]

Usage(i, o, cw, cr) ==
  [present |-> TRUE, input_tokens |-> i, output_tokens |-> o,
   cache_creation_input_tokens |-> cw, cache_read_input_tokens |-> cr]

Line(type, uuid, ts, usage, model, tools, len) ==
  [json |-> TRUE, blank |-> FALSE, type |-> type, uuid |-> uuid,
   timestamp |-> ts, cwd |-> IF ts = 0 THEN NoStr ELSE "/proj",
   gitBranch |-> IF ts = 0 THEN NoStr ELSE "main",
   version |-> IF ts = 0 THEN NoStr ELSE "2.0",
   usage |-> usage, model |-> model, tools |-> tools, len |-> len,
   torn |-> "no", content |-> 2]

AssistantA == Line("assistant", "u1", 2, Usage(1, 1, Absent, 2), "claude-sonnet-4-20250514", <<>>, 3)
AssistantB == Line("assistant", "u2", 1, Usage(2, Absent, 1, Absent), "claude-opus-4-5-20251101", <<"mcp__srv__t">>, 2)
AssistantNoId == Line("assistant", NoStr, 2, Usage(1, 0, 0, 0), "some-model", <<>>, 2)
UserC == Line("user", "u3", 1, NoUsage, NoStr, <<>>, 2)
Summary == Line("summary", NoStr, 0, NoUsage, NoStr, <<>>, 1)
Garbage == [Summary EXCEPT !.json = FALSE]
Blank == [Summary EXCEPT !.json = FALSE, !.blank = TRUE, !.len = 0]

Lines == {AssistantA, AssistantB, AssistantNoId, UserC, Summary, Garbage, Blank}

\* the lines the producer writes to each transcript: s2 is a session resumed
\* from s1, its transcript repeats a record of s1
LinesOf(filePath) ==
  IF filePath = "/a/s1.jsonl"
  THEN {AssistantA, AssistantB, AssistantNoId, Summary, Garbage}
  ELSE {AssistantA, UserC, Blank}

\* the records the producer writes in two steps, and the lines it writes whole
\* besides them
TornLinesOf(filePath) ==
  IF filePath = "/a/s1.jsonl" THEN {AssistantB, AssistantNoId} ELSE {UserC}
WholeLinesOf(filePath) == LinesOf(filePath) \ (TornLinesOf(filePath) \cup {Blank})

\* the first bytes of a line: JSON.parse throws on an unfinished object
PartialLine(line) == [line EXCEPT !.json = FALSE, !.torn = "partial", !.len = @ - 1]
LastPartial(content) == content # <<>> /\ content[Len(content)].torn = "partial"

(* --------------------------- Cost Model --------------------------------- *)
\* prices per million tokens, times 100
Price(i, o, cw, cr) ==
  [inputPerMillion |-> i, outputPerMillion |-> o,
   cacheWritePerMillion |-> cw, cacheReadPerMillion |-> cr]

PricedModels ==
  {"claude-opus-4-5-20251101", "claude-sonnet-4-20250514",
   "claude-3-5-sonnet-20241022", "claude-3-5-haiku-20241022", "default"}

MODEL_PRICING(model) ==
  CASE model = "claude-opus-4-5-20251101" -> Price(1500, 7500, 1875, 150)
    [] model = "claude-3-5-haiku-20241022" -> Price(100, 500, 125, 10)
    [] OTHER -> Price(300, 1500, 375, 30)

\* MODEL_PRICING is an object literal: MODEL_PRICING[model] finds, besides
\* its own five keys, every name it inherits from Object.prototype, and what
\* it finds there is a function or an object, which is truthy and has none of
\* the four pricing fields
InheritedNames == {"constructor", "toString", "__proto__"}

\* the number a product with undefined gives; it is no cost
NaN == 0 - 2

calculateCostCacheAtInputRate(model, usage) ==
  LET pricing == IF model \in PricedModels THEN MODEL_PRICING(model)
                 ELSE MODEL_PRICING("default")
  IN  IF model \in InheritedNames THEN NaN
      ELSE (OrZero(usage.input_tokens) + OrZero(usage.cache_read_input_tokens))
             * pricing.inputPerMillion
           + OrZero(usage.output_tokens) * pricing.outputPerMillion
           + OrZero(usage.cache_creation_input_tokens) * pricing.cacheWritePerMillion

\* const pricing = MODEL_PRICING[model] || MODEL_PRICING.default
calculateCost(model, usage) ==
  LET pricing == IF model \in PricedModels THEN MODEL_PRICING(model)
                 ELSE MODEL_PRICING("default")
  IN  IF model \in InheritedNames THEN NaN
      ELSE OrZero(usage.input_tokens) * pricing.inputPerMillion
           + OrZero(usage.output_tokens) * pricing.outputPerMillion
           + OrZero(usage.cache_creation_input_tokens) * pricing.cacheWritePerMillion
           + OrZero(usage.cache_read_input_tokens) * pricing.cacheReadPerMillion

extractTokensInputOnly(usage) ==
  [input |-> OrZero(usage.input_tokens),
   output |-> OrZero(usage.output_tokens),
   cacheWrite |-> OrZero(usage.cache_creation_input_tokens),
   cacheRead |-> OrZero(usage.cache_read_input_tokens),
   totalInput |-> OrZero(usage.input_tokens)]

extractTokens(usage) ==
  [input |-> OrZero(usage.input_tokens),
   output |-> OrZero(usage.output_tokens),
   cacheWrite |-> OrZero(usage.cache_creation_input_tokens),
   cacheRead |-> OrZero(usage.cache_read_input_tokens),
   totalInput |-> OrZero(usage.input_tokens) + OrZero(usage.cache_read_input_tokens)]

(* --------------------------- Aggregate Store ---------------------------- *)
\* The Database: four relations.  sessions is keyed by id (PRIMARY KEY),
\* events and mcp_tools are in rowid order (id = index, AUTOINCREMENT, no
\* deletes), file_positions is keyed by file_path (PRIMARY KEY).
EmptyDb ==
  [sessions |-> <<>>, events |-> <<>>, mcp_tools |-> <<>>, file_positions |-> <<>>]

\* Partial<Session> & {id}: every field but id absent
SessionArg(id) ==
  [id |-> id, project_path |-> NoStr, git_branch |-> NoStr, started_at |-> 0,
   ended_at |-> 0, version |-> NoStr,
   total_input_tokens |-> Absent, total_output_tokens |-> Absent,
   total_cost_usd |-> Absent, total_cache_read_tokens |-> Absent,
   total_cache_write_tokens |-> Absent]

OverwriteColumn(col, delta) == IF delta = Absent THEN col ELSE delta

\* col = col + ?, applied only when the field is supplied
AddToColumn(col, delta) == IF delta = Absent THEN col ELSE col + delta

LaterStart(existing, supplied) ==
  IF supplied # 0 /\ supplied > existing THEN supplied ELSE existing

\* started_at moves only to an earlier supplied timestamp
EarlierStart(existing, supplied) ==
  IF supplied # 0 /\ supplied < existing THEN supplied ELSE existing

EndedAtOverwritten(existing, supplied) == supplied

\* if (session.ended_at !== undefined): ended_at = ? only when the call
\* supplies the field
EndedAt(existing, supplied) == IF supplied # 0 THEN supplied ELSE existing

UpdatedRowFillingNulls(existing, session) ==
  [existing EXCEPT
     !.project_path = IF @ = NoStr THEN session.project_path ELSE @,
     !.git_branch = IF @ = NoStr THEN session.git_branch ELSE @,
     !.version = IF @ = NoStr THEN session.version ELSE @,
     !.started_at = EarlierStart(@, session.started_at),
     !.ended_at = EndedAt(@, session.ended_at),
     !.total_input_tokens = AddToColumn(@, session.total_input_tokens),
     !.total_output_tokens = AddToColumn(@, session.total_output_tokens),
     !.total_cost_usd = AddToColumn(@, session.total_cost_usd),
     !.total_cache_read_tokens = AddToColumn(@, session.total_cache_read_tokens),
     !.total_cache_write_tokens = AddToColumn(@, session.total_cache_write_tokens)]

\* the row after the UPDATE of the update branch: the statement sets
\* started_at, ended_at and the five totals, each only when supplied, and no
\* other column
UpdatedRow(existing, session) ==
  [existing EXCEPT
     !.started_at = EarlierStart(@, session.started_at),
     !.ended_at = EndedAt(@, session.ended_at),
     !.total_input_tokens = AddToColumn(@, session.total_input_tokens),
     !.total_output_tokens = AddToColumn(@, session.total_output_tokens),
     !.total_cost_usd = AddToColumn(@, session.total_cost_usd),
     !.total_cache_read_tokens = AddToColumn(@, session.total_cache_read_tokens),
     !.total_cache_write_tokens = AddToColumn(@, session.total_cache_write_tokens)]

upsertSession(d, session, now) ==
  IF session.id \in DOMAIN d.sessions
  THEN [d EXCEPT !.sessions[session.id] = UpdatedRow(@, session)]
  ELSE LET row == [project_path |-> session.project_path,
                   git_branch |-> session.git_branch,
                   started_at |-> IF session.started_at # 0 THEN session.started_at ELSE now,
                   ended_at |-> session.ended_at,
                   total_input_tokens |-> OrZero(session.total_input_tokens),
                   total_output_tokens |-> OrZero(session.total_output_tokens),
                   total_cache_read_tokens |-> 0,
                   total_cache_write_tokens |-> 0,
                   total_cost_usd |-> OrZero(session.total_cost_usd),
                   version |-> session.version]
       IN  [d EXCEPT !.sessions = @ @@ (session.id :> row)]

NoUniqueIndex(events, uuid) == TRUE

\* CREATE UNIQUE INDEX idx_events_uuid_unique ON events(uuid) WHERE uuid IS NOT NULL:
\* TRUE when a row with this uuid may be added
idx_events_uuid_unique(events, uuid) ==
  uuid = NoStr \/ \A i \in 1..Len(events) : events[i].uuid # uuid

\* FOREIGN KEY (session_id) REFERENCES sessions(id)
SessionForeignKey(d, session_id) == session_id \in DOMAIN d.sessions

insertOrReplaceLast(d, event) ==
  IF d.events = <<>>
  THEN [db |-> [d EXCEPT !.events = <<event>>], threw |-> FALSE, id |-> 1]
  ELSE [db |-> [d EXCEPT !.events[Len(d.events)] = event], threw |-> FALSE,
        id |-> Len(d.events)]

\* timestamp TEXT NOT NULL: an undefined timestamp is bound as NULL
TimestampNotNull(event) == event.timestamp # 0

\* the INSERT throws when a constraint rejects the row; id is lastInsertRowid
insertEvent(d, event) ==
  IF /\ idx_events_uuid_unique(d.events, event.uuid)
     /\ SessionForeignKey(d, event.session_id)
     /\ TimestampNotNull(event)
  THEN [db |-> [d EXCEPT !.events = Append(@, event)], threw |-> FALSE,
        id |-> Len(d.events) + 1]
  ELSE [db |-> d, threw |-> TRUE, id |-> 0]

checkEventExistsInSession(d, sessionId, uuid) ==
  \E i \in 1..Len(d.events) :
    d.events[i].uuid = uuid /\ d.events[i].session_id = sessionId

\* SELECT 1 FROM events WHERE uuid = ?: the session id takes no part
checkEventExists(d, sessionId, uuid) ==
  \E i \in 1..Len(d.events) : d.events[i].uuid = uuid

McpToolRowsOfAnySession(d, sessionId, toolName) ==
  {i \in 1..Len(d.mcp_tools) : d.mcp_tools[i].tool_name = toolName}

\* SELECT * FROM mcp_tools WHERE session_id = ? AND tool_name = ?: the rows found
McpToolRows(d, sessionId, toolName) ==
  {i \in 1..Len(d.mcp_tools) :
     d.mcp_tools[i].session_id = sessionId /\ d.mcp_tools[i].tool_name = toolName}

\* success ? 1 : 0 and success ? 0 : 1, the two numbers bound to the statement
AlwaysOne(success) == 1
SuccessDelta(success) == IF success THEN 1 ELSE 0
ErrorDelta(success) == IF success THEN 0 ELSE 1

\* durationMs has its default, 0, in every call of the engine; the UPDATE
\* changes every row its WHERE clause selects
upsertMcpTool(d, sessionId, toolName, success) ==
  LET existing == McpToolRows(d, sessionId, toolName) IN
  IF existing # {}
  THEN [d EXCEPT !.mcp_tools =
          [i \in 1..Len(@) |->
             IF i \in existing
             THEN [@[i] EXCEPT !.invocation_count = @ + 1,
                               !.success_count = @ + SuccessDelta(success),
                               !.error_count = @ + ErrorDelta(success)]
             ELSE @[i]]]
  ELSE [d EXCEPT !.mcp_tools = Append(@,
          [session_id |-> sessionId, tool_name |-> toolName,
           invocation_count |-> 1,
           success_count |-> SuccessDelta(success),
           error_count |-> ErrorDelta(success),
           total_duration_ms |-> 0])]

getFilePosition(d, filePath) ==
  IF filePath \in DOMAIN d.file_positions THEN d.file_positions[filePath] ELSE 0

setFilePosition(d, filePath, position) ==
  IF filePath \in DOMAIN d.file_positions
  THEN [d EXCEPT !.file_positions[filePath] = position]
  ELSE [d EXCEPT !.file_positions = @ @@ (filePath :> position)]

(* ----------------------- Entry Classifier/Parser ------------------------ *)
\* tool names; block.name.startsWith('mcp__') holds of those in McpToolNames
McpToolNames == {"mcp__srv__t"}

startsWithMcp(name) == name \in McpToolNames

\* content.slice(0, 5000) for the stored Event, content.slice(0, 500) for the
\* message handed to the broadcaster; lengths of strings stand for the strings
StoredContentCap == 5000
LiveContentCap == 500
slice(length, end) == IF length > end THEN end ELSE length

\* toolUses.join(', '), null when there is no tool_use block
RECURSIVE JoinTools(_)
JoinTools(toolUses) ==
  IF toolUses = <<>> THEN NoStr
  ELSE IF Len(toolUses) = 1 THEN toolUses[1]
  ELSE toolUses[1] \o ", " \o JoinTools(Tail(toolUses))

EventMessageWithoutRow(eventId, content) ==
  [type |-> "event", id |-> 0, content |-> content]

\* the messages wsBroadcaster is handed
EventMessage(eventId, content) == [type |-> "event", id |-> eventId, content |-> content]
StatsMessage == [type |-> "stats_update", id |-> 0, content |-> Absent]

\* what a processing step gives back: the Store after it, the messages it
\* broadcast, whether it threw, and the id of the Event it stored (0: none)
Step(d, out, threw, eventId) ==
  [db |-> d, out |-> out, threw |-> threw, event |-> eventId]

UserEvent(entry, sessionId) ==
  [session_id |-> sessionId, event_type |-> "transcript",
   hook_event_name |-> NoStr, entry_type |-> "user", tool_name |-> NoStr,
   tool_response |-> NoStr,
   tokens_input |-> Absent, tokens_output |-> Absent,
   cache_read_tokens |-> Absent, cache_write_tokens |-> Absent,
   cost |-> Absent, model |-> NoStr,
   content |-> slice(entry.content, StoredContentCap),
   timestamp |-> entry.timestamp, uuid |-> entry.uuid]

processUserEntry(d, entry, sessionId) ==
  LET ins == insertEvent(d, UserEvent(entry, sessionId))
  IN  IF ins.threw THEN Step(d, <<>>, TRUE, 0)
      ELSE Step(ins.db, <<EventMessage(ins.id, slice(entry.content, LiveContentCap))>>,
                FALSE, ins.id)

\* the tool_use blocks of the message, in order: upsertMcpTool for each mcp tool
RECURSIVE TrackMcpTools(_, _, _)
TrackMcpTools(d, toolUses, sessionId) ==
  IF toolUses = <<>> THEN d
  ELSE TrackMcpTools(
         IF startsWithMcp(Head(toolUses))
         THEN upsertMcpTool(d, sessionId, Head(toolUses), TRUE) ELSE d,
         Tail(toolUses), sessionId)

\* the deltas processAssistantEntry hands to upsertSession
SessionTotals(sessionId, tokens, cost) ==
  [SessionArg(sessionId) EXCEPT
     !.total_input_tokens = tokens.totalInput,
     !.total_output_tokens = tokens.output,
     !.total_cache_read_tokens = tokens.cacheRead,
     !.total_cache_write_tokens = tokens.cacheWrite,
     !.total_cost_usd = cost]

AssistantEvent(entry, sessionId, tokens, cost) ==
  [session_id |-> sessionId, event_type |-> "transcript",
   hook_event_name |-> NoStr, entry_type |-> "assistant",
   tool_name |-> JoinTools(entry.tools), tool_response |-> NoStr,
   tokens_input |-> tokens.totalInput, tokens_output |-> tokens.output,
   cache_read_tokens |-> tokens.cacheRead, cache_write_tokens |-> tokens.cacheWrite,
   cost |-> cost, model |-> entry.model,
   content |-> slice(entry.content, StoredContentCap),
   timestamp |-> entry.timestamp, uuid |-> entry.uuid]

processAssistantEntry(d, entry, sessionId, now) ==
  LET d1 == TrackMcpTools(d, entry.tools, sessionId) IN
  IF ~entry.usage.present
  THEN Step(d1, <<>>, TRUE, 0)   \* extractTokens(undefined) throws
  ELSE LET tokens == extractTokens(entry.usage)
           cost == calculateCost(entry.model, entry.usage)
           d2 == upsertSession(d1, SessionTotals(sessionId, tokens, cost), now)
           ins == insertEvent(d2, AssistantEvent(entry, sessionId, tokens, cost))
       IN  IF ins.threw THEN Step(d2, <<>>, TRUE, 0)
           ELSE Step(ins.db,
                     <<EventMessage(ins.id, slice(entry.content, LiveContentCap)),
                       StatsMessage>>,
                     FALSE, ins.id)

\* the fields processEntry hands to upsertSession to ensure the session exists
SessionMeta(entry, sessionId) ==
  [SessionArg(sessionId) EXCEPT
     !.project_path = entry.cwd,
     !.git_branch = entry.gitBranch,
     !.started_at = entry.timestamp,
     !.version = entry.version]

\* entry.uuid && ...: the check runs only for a record that carries an identifier
processEntry(d, entry, sessionId, now) ==
  IF entry.uuid # NoStr /\ checkEventExists(d, sessionId, entry.uuid)
  THEN Step(d, <<>>, FALSE, 0)
  ELSE LET d1 == upsertSession(d, SessionMeta(entry, sessionId), now) IN
       IF entry.type = "user" THEN processUserEntry(d1, entry, sessionId)
       ELSE IF entry.type = "assistant"
            THEN processAssistantEntry(d1, entry, sessionId, now)
            ELSE Step(d1, <<>>, FALSE, 0)

(* ------------------------- Incremental Reader --------------------------- *)
\* stat.size: every line is followed by a newline
RECURSIVE Size(_)
Size(content) ==
  IF content = <<>> THEN 0 ELSE Head(content).len + 1 + Size(Tail(content))

\* content.split('\n').filter((line) => line.trim())
NonBlank(line) == ~line.blank
SplitLines(content) == SelectSeq(content, NonBlank)

\* filePath.split('/').pop().replace('.jsonl', '')
SessionIdOf(filePath) == IF filePath = "/a/s1.jsonl" THEN "s1" ELSE "s2"

RECURSIVE ParseLinesAbort(_, _, _, _)
ParseLinesAbort(d, lines, sessionId, now) ==
  IF lines = <<>> \/ ~Head(lines).json THEN [db |-> d, out |-> <<>>, fed |-> <<>>]
  ELSE LET r == processEntry(d, Head(lines), sessionId, now)
           rest == ParseLinesAbort(r.db, Tail(lines), sessionId, now)
       IN  [db |-> rest.db, out |-> r.out \o rest.out,
            fed |-> <<Head(lines)>> \o rest.fed]

\* the loop over the lines of one pass: a line JSON.parse rejects, or a
\* record whose processing throws, is skipped and the loop goes on; fed are
\* the records handed to processEntry
RECURSIVE ParseLines(_, _, _, _)
ParseLines(d, lines, sessionId, now) ==
  IF lines = <<>> THEN [db |-> d, out |-> <<>>, fed |-> <<>>]
  ELSE IF ~Head(lines).json THEN ParseLines(d, Tail(lines), sessionId, now)
  ELSE LET r == processEntry(d, Head(lines), sessionId, now)
           rest == ParseLines(r.db, Tail(lines), sessionId, now)
       IN  [db |-> rest.db, out |-> r.out \o rest.out,
            fed |-> <<Head(lines)>> \o rest.fed]

BytesReadPosition(size, startPosition) == size - startPosition

NeverLowerPosition(size, startPosition) ==
  IF size < startPosition THEN startPosition ELSE size

\* the position parseFile stores at the end of a pass
PassPosition(size, startPosition) == size

\* const readFrom = stat.size < startPosition ? 0 : startPosition
ReadFrom(size, startPosition) == IF size < startPosition THEN 0 ELSE startPosition

(* ------------------------ External Ingress Adapter ---------------------- *)
\* the bodies POSTed to /api/events; timestamp 0: none given; prompt is the
\* length of the prompt and tool_input the length of JSON.stringify(tool_input),
\* Absent when the body has no such field
HookBody(session_id, hook_event_name, tool_name, tool_response, timestamp) ==
  [session_id |-> session_id, hook_event_name |-> hook_event_name,
   tool_name |-> tool_name, tool_response |-> tool_response,
   timestamp |-> timestamp, prompt |-> Absent, tool_input |-> Absent]

HookBodies ==
  {HookBody("s1", "SessionEnd", NoStr, "absent", 2),
   HookBody("s2", "PostToolUse", "mcp__srv__t", "string", 0),
   HookBody(NoStr, "PostToolUse", NoStr, "absent", 1),
   HookBody("s2", "UserPromptSubmit", NoStr, "absent", SecondsStamp)}

\* !event.tool_response || (typeof event.tool_response === 'object' && is_error !== true)
HookSuccess(tool_response) == tool_response \in {"absent", "object"}

\* JSON.stringify(event.tool_input).slice(0, 1000)
HookInputCap == 1000

\* the content of a hook event: the prompt of a UserPromptSubmit as it came,
\* else the first characters of the tool input, else null
HookContent(event) ==
  IF event.hook_event_name = "UserPromptSubmit" /\ event.prompt > 0
  THEN event.prompt
  ELSE IF event.tool_input # Absent THEN slice(event.tool_input, HookInputCap)
  ELSE Absent

\* event.tool_response ? JSON.stringify(event.tool_response) : null; the
\* shape of the response stands for its text
StoredResponse(tool_response) ==
  IF tool_response = "absent" THEN NoStr ELSE tool_response

\* the fields of the session processHookEvent hands to upsertSession first
HookSessionCounting(event) ==
  [SessionArg(event.session_id) EXCEPT !.started_at = event.timestamp,
                                       !.total_input_tokens = 1]
HookSession(event) ==
  [SessionArg(event.session_id) EXCEPT !.started_at = event.timestamp]

\* the row processHookEvent inserts
HookEvent(event) ==
  [session_id |-> event.session_id, event_type |-> "hook",
   hook_event_name |-> event.hook_event_name, entry_type |-> NoStr,
   tool_name |-> event.tool_name,
   tool_response |-> StoredResponse(event.tool_response),
   tokens_input |-> Absent, tokens_output |-> Absent,
   cache_read_tokens |-> Absent, cache_write_tokens |-> Absent,
   cost |-> Absent, model |-> NoStr,
   content |-> HookContent(event),
   timestamp |-> event.timestamp, uuid |-> NoStr]

processHookEvent(d, event, now) ==
  LET d1 == upsertSession(d, HookSession(event), now)
      ins == insertEvent(d1, HookEvent(event))
      d2 == IF startsWithMcp(event.tool_name) /\ event.hook_event_name = "PostToolUse"
            THEN upsertMcpTool(ins.db, event.session_id, event.tool_name,
                               HookSuccess(event.tool_response))
            ELSE ins.db
      d3 == IF event.hook_event_name = "SessionEnd"
            THEN upsertSession(d2,
                   [SessionArg(event.session_id) EXCEPT !.ended_at = event.timestamp], now)
            ELSE d2
  IN  IF ins.threw THEN Step(d1, <<>>, TRUE, 0)
      ELSE Step(d3, <<EventMessage(ins.id, HookContent(event)), StatsMessage>>,
                FALSE, ins.id)

(* ------------------------ Live Broadcaster ------------------------------ *)
\* the sockets that connect to /ws
Sockets == {"c1", "c2", "c3"}

\* an entry of the Set that was deleted while the Set is being iterated
Hole == "deleted"

\* Set.delete during for...of: the entry is emptied in place, the entries
\* after it keep their places and are still visited
SpliceDelete(entries, i) == SubSeq(entries, 1, i - 1) \o SubSeq(entries, i + 1, Len(entries))
SetDelete(entries, i) == [entries EXCEPT ![i] = Hole]

Range(seq) == {seq[i] : i \in 1..Len(seq)}

\* the Set without a socket, and with a socket added (no entry twice)
Without(entries, socket) == SelectSeq(entries, LAMBDA e : e # socket /\ e # Hole)
SetAdd(entries, socket) ==
  IF \E i \in 1..Len(entries) : entries[i] = socket THEN entries
  ELSE Append(entries, socket)

\* client.readyState === 1
AnyReadyState(ready, client) == TRUE
IsOpen(ready, client) == ready[client] = "open"

\* client.send(data) threw: the catch logs, deletes the client and the loop goes on
sendErrorPropagates(st, i) == [st EXCEPT !.raised = TRUE]
sendError(st, i) == [st EXCEPT !.entries = SetDelete(@, i)]

\* broadcast(message): the loop over the Set from entry i on; sends to the
\* sockets of failing throw.  st.sent are the messages each socket was sent.
RECURSIVE broadcastFrom(_, _, _, _, _)
broadcastFrom(st, ready, failing, message, i) ==
  IF st.raised \/ i > Len(st.entries) THEN st
  ELSE LET client == st.entries[i] IN
       IF client = Hole \/ ~IsOpen(ready, client)
       THEN broadcastFrom(st, ready, failing, message, i + 1)
       ELSE IF client \in failing
       THEN broadcastFrom(sendError(st, i), ready, failing, message, i + 1)
       ELSE broadcastFrom([st EXCEPT !.sent[client] = Append(@, message)],
                          ready, failing, message, i + 1)

broadcast(st, ready, failing, message) ==
  LET r == broadcastFrom(st, ready, failing, message, 1)
  IN  [r EXCEPT !.entries = Without(@, Hole)]

\* the broadcasts of one handler, in order; a broadcast that raises ends the handler
RECURSIVE broadcastAll(_, _, _, _)
broadcastAll(st, ready, failing, messages) ==
  IF messages = <<>> \/ st.raised THEN st
  ELSE broadcastAll(broadcast(st, ready, failing, Head(messages)),
                    ready, failing, Tail(messages))

NoBroadcast ==
  [active |-> FALSE, before |-> <<>>, failing |-> {}, messages |-> <<>>,
   sent |-> [c \in Sockets |-> <<>>], raised |-> FALSE, returned |-> 0]

(* --------------------------- the engine --------------------------------- *)
Writers == {"w1", "w2"}

VARIABLES
  files,       \* the watched transcript files: path -> its lines
  appended,    \* the lines the producer has appended so far
  modified,    \* path -> the file was written after the last pass over it
  db,          \* the Store
  wsOut,       \* the messages this step handed to wsBroadcaster
  pass,        \* the handler this step ran: its kind, path and what it read
  classified,  \* every <<session id, record>> handed to processEntry so far
  writers,     \* the processes writing to the Store statement by statement
  watcher,     \* TranscriptWatcher.watcher: the file-watch subscription
  debounceTimers, \* TranscriptWatcher.debounceTimers: path -> timer (0: no entry)
  scheduled,   \* the timers set and neither fired nor cleared: <<path, timer>>
  notified,    \* the notifications received so far; the next timer is notified + 1
  burst,       \* path -> the notifications of its current or last burst
  erred,       \* the paths a pass over which has failed
  shut,        \* the statements of shutdown executed so far (0: no signal yet)
  storeOpen,   \* the Store handle is open
  clients,     \* WebSocketBroadcaster.clients: the Set, in insertion order
  readyState,  \* socket -> "new" (not connected yet), "open", "closing", "closed"
  bcast,       \* what the broadcasts of this step did
  reading,     \* the parseFile call in progress: its position in the code and its locals
  call         \* the query or function call of this step: its arguments and its result

engineVars == <<files, appended, modified, db, wsOut, pass, classified, writers>>
watchVars == <<watcher, debounceTimers, scheduled, notified, burst, erred, shut, storeOpen>>
wsVars == <<clients, readyState, bcast>>
vars == <<engineVars, watchVars, wsVars, reading, call>>

NoPass ==
  [op |-> "none", path |-> NoStr, size |-> 0, startPosition |-> 0,
   readFrom |-> 0, fed |-> <<>>, timestamp |-> 0, error |-> FALSE]

\* no parseFile call is in progress; crashes counts the passes the process
\* did not live to finish
IdleReader ==
  [pc |-> "idle", path |-> NoStr, size |-> 0, startPosition |-> 0,
   lines |-> <<>>, fed |-> <<>>, crashes |-> 0, crashedPath |-> NoStr]

NoCall == [op |-> "none"]

IdleWriter ==
  [pc |-> "idle", sessionId |-> NoStr, entry |-> Blank, outcome |-> "none", n |-> 0]

\* the process after construction, and the Store of a first start
InitEngine ==
  /\ files = [p \in Paths |-> <<>>]
  /\ appended = 0
  /\ modified = [p \in Paths |-> FALSE]
  /\ wsOut = <<>>
  /\ pass = NoPass
  /\ classified = {}
  /\ writers = [w \in Writers |-> IdleWriter]
  /\ watcher = "open"
  /\ debounceTimers = [p \in Paths |-> 0]
  /\ scheduled = {}
  /\ notified = 0
  /\ burst = [p \in Paths |-> 0]
  /\ erred = {}
  /\ shut = 0
  /\ storeOpen = TRUE
  /\ clients = <<>>
  /\ readyState = [c \in Sockets |-> "new"]
  /\ bcast = NoBroadcast
  /\ reading = IdleReader

InitStore == db = EmptyDb

\* the engine after construction, with no call of a query or function yet
Init ==
  /\ InitEngine
  /\ InitStore
  /\ call = NoCall

\* the producer appends one line to a transcript
AppendLine(filePath, line) ==
  /\ appended < MaxAppends
  /\ ~LastPartial(files[filePath])
  /\ appended' = appended + 1
  /\ files' = [files EXCEPT ![filePath] = Append(@, line)]
  /\ modified' = [modified EXCEPT ![filePath] = TRUE]
  /\ wsOut' = <<>>
  /\ pass' = NoPass
  /\ UNCHANGED <<db, classified, writers, watchVars, wsVars, reading, call>>

\* the transcript is cut down to its first keep lines (0: created again)
TruncateFile(filePath, keep) ==
  /\ keep < Len(files[filePath])
  /\ files' = [files EXCEPT ![filePath] = SubSeq(@, 1, keep)]
  /\ modified' = [modified EXCEPT ![filePath] = TRUE]
  /\ wsOut' = <<>>
  /\ pass' = NoPass
  /\ UNCHANGED <<appended, db, classified, writers, watchVars, wsVars, reading, call>>

\* TranscriptParser.parseFile: one pass over one file
parseFile(filePath) ==
  \E now \in Nows :
    LET size == Size(files[filePath])
        startPosition == getFilePosition(db, filePath)
        content == files[filePath]
        lines == SplitLines(content)
        sessionId == SessionIdOf(filePath)
        r == ParseLines(db, lines, sessionId, now)
    IN  /\ Len(r.db.events) <= MaxEvents
        /\ db' = setFilePosition(r.db, filePath, PassPosition(size, startPosition))
        /\ wsOut' = r.out
        /\ pass' = [op |-> "parseFile", path |-> filePath, size |-> size,
                    startPosition |-> startPosition,
                    readFrom |-> ReadFrom(size, startPosition), fed |-> r.fed,
                    timestamp |-> 0, error |-> FALSE]
        /\ classified' = classified \cup {<<sessionId, r.fed[i]>> : i \in 1..Len(r.fed)}
        /\ modified' = [modified EXCEPT ![filePath] = FALSE]
        /\ UNCHANGED <<files, appended, writers>>

\* a pass started by anything that calls parseFile
ParseFile(filePath) == parseFile(filePath) /\ UNCHANGED <<watchVars, wsVars, reading, call>>

\* POST /api/events: a body without session_id or hook_event_name is answered
\* 400; a missing timestamp is set to the current time
postEvent(body) ==
  \E now \in Nows :
    LET event == IF body.timestamp = 0 THEN [body EXCEPT !.timestamp = now] ELSE body
        r == IF body.session_id = NoStr \/ body.hook_event_name = NoStr
             THEN Step(db, <<>>, FALSE, 0)
             ELSE processHookEvent(db, event, now)
    IN  /\ Len(db.events) < MaxEvents
        /\ db' = r.db
        /\ wsOut' = r.out
        /\ pass' = [NoPass EXCEPT !.op = "postEvent", !.path = body.session_id,
                                  !.timestamp = event.timestamp]
        /\ UNCHANGED <<files, appended, modified, classified, writers>>

PostEvent(body) == postEvent(body) /\ UNCHANGED <<watchVars, wsVars, reading, call>>

\* the producer writes the first bytes of a line, and later the rest of it
AppendPartial(filePath, line) == AppendLine(filePath, PartialLine(line))

CompleteLine(filePath) ==
  LET content == files[filePath]
      n == Len(content)
  IN  /\ LastPartial(content)
      /\ files' = [files EXCEPT ![filePath][n] =
                     [@ EXCEPT !.json = TRUE, !.len = @ + 1,
                               !.torn = IF modified[filePath] THEN "no" ELSE "completed"]]
      /\ modified' = [modified EXCEPT ![filePath] = TRUE]
      /\ wsOut' = <<>>
      /\ pass' = NoPass
      /\ UNCHANGED <<appended, db, classified, writers, watchVars, wsVars, reading, call>>

Next ==
  \/ \E p \in Paths : \E l \in LinesOf(p) : AppendLine(p, l)
  \/ \E p \in Paths : \E keep \in 0..(MaxAppends - 1) : TruncateFile(p, keep)
  \/ \E p \in Paths : ParseFile(p)

Spec == Init /\ [][Next]_vars

\* the passes over transcripts whose producer writes some lines in two steps
NextTorn ==
  \/ \E p \in Paths : \E l \in WholeLinesOf(p) : AppendLine(p, l)
  \/ \E p \in Paths : \E l \in TornLinesOf(p) : AppendPartial(p, l)
  \/ \E p \in Paths : CompleteLine(p)
  \/ \E p \in Paths : ParseFile(p)

SpecTorn == Init /\ [][NextTorn]_vars

\* both ways into the Store: passes over transcripts and pushed hook events
NextIngest ==
  \/ \E p \in Paths : \E l \in WholeLinesOf(p) \cup TornLinesOf(p) : AppendLine(p, l)
  \/ \E p \in Paths : ParseFile(p)
  \/ \E body \in HookBodies : PostEvent(body)

SpecIngest == Init /\ [][NextIngest]_vars

\* tool calls reported both ways: assistant records with tool_use blocks (one
\* names the same mcp tool twice, beside a tool that is not an mcp tool) and
\* PostToolUse hook events whose tool_response is absent, an object, an object
\* with is_error true, or a string
AssistantTools ==
  Line("assistant", "u4", 1, Usage(1, 1, 0, 0), "claude-sonnet-4-20250514",
       <<"mcp__srv__t", "Bash", "mcp__srv__t">>, 2)

ToolLinesOf(filePath) ==
  IF filePath = "/a/s1.jsonl" THEN {AssistantB, AssistantTools} ELSE {AssistantTools}

ToolBodies ==
  {HookBody("s1", "PostToolUse", "mcp__srv__t", "object", 1),
   HookBody("s1", "PostToolUse", "mcp__srv__t", "is_error", 1),
   HookBody("s2", "PostToolUse", "mcp__srv__t", "string", 2),
   HookBody("s2", "PreToolUse", "mcp__srv__t", "absent", 2),
   HookBody("s1", "PostToolUse", "Bash", "absent", 2)}

NextTools ==
  \/ \E p \in Paths : \E l \in ToolLinesOf(p) : AppendLine(p, l)
  \/ \E p \in Paths : ParseFile(p)
  \/ \E body \in ToolBodies : PostEvent(body)

SpecTools == Init /\ [][NextTools]_vars

(* ------------------- writers sharing one Store --------------------------- *)
\* Two processes run processEntry against the same Store.  Each statement a
\* process sends to the Store is one step; the statements of the two
\* processes interleave, no transaction encloses the statements of a record.
WriterEntries == {AssistantA, UserC}

Goto(w, pc, outcome) ==
  writers' = [writers EXCEPT ![w].pc = pc, ![w].outcome = outcome]

Quiet ==
  wsOut' = <<>> /\ pass' = NoPass
  /\ UNCHANGED <<files, appended, modified, classified, watchVars, wsVars, reading, call>>

\* a process takes the next record of a transcript
WBegin(w, sessionId, entry) ==
  /\ writers[w].pc = "idle"
  /\ writers["w1"].n + writers["w2"].n < MaxWrites
  /\ writers' = [writers EXCEPT ![w] =
       [pc |-> "check", sessionId |-> sessionId, entry |-> entry,
        outcome |-> "none", n |-> @.n + 1]]
  /\ db' = db
  /\ Quiet

\* processEntry: the existence check
WCheck(w) ==
  /\ writers[w].pc = "check"
  /\ IF writers[w].entry.uuid # NoStr
        /\ checkEventExists(db, writers[w].sessionId, writers[w].entry.uuid)
     THEN Goto(w, "idle", "duplicate")
     ELSE Goto(w, "session", "none")
  /\ db' = db
  /\ Quiet

\* processEntry: ensure the session exists
WSession(w) ==
  /\ writers[w].pc = "session"
  /\ \E now \in Nows :
       db' = upsertSession(db, SessionMeta(writers[w].entry, writers[w].sessionId), now)
  /\ IF writers[w].entry.type = "user" THEN Goto(w, "insert", "none")
     ELSE IF writers[w].entry.type = "assistant" THEN Goto(w, "track", "none")
     ELSE Goto(w, "idle", "ignored")
  /\ Quiet

\* processAssistantEntry: the content blocks, then extractTokens
WTrack(w) ==
  /\ writers[w].pc = "track"
  /\ db' = TrackMcpTools(db, writers[w].entry.tools, writers[w].sessionId)
  /\ IF writers[w].entry.usage.present THEN Goto(w, "totals", "none")
     ELSE Goto(w, "idle", "threw")
  /\ Quiet

\* processAssistantEntry: update session totals
WTotals(w) ==
  /\ writers[w].pc = "totals"
  /\ \E now \in Nows :
       db' = upsertSession(db,
               SessionTotals(writers[w].sessionId,
                             extractTokens(writers[w].entry.usage),
                             calculateCost(writers[w].entry.model, writers[w].entry.usage)),
               now)
  /\ Goto(w, "insert", "none")
  /\ Quiet

\* processUserEntry / processAssistantEntry: insert the Event, then broadcast
WInsert(w) ==
  /\ writers[w].pc = "insert"
  /\ LET entry == writers[w].entry
         event == IF entry.type = "user" THEN UserEvent(entry, writers[w].sessionId)
                  ELSE AssistantEvent(entry, writers[w].sessionId,
                                      extractTokens(entry.usage),
                                      calculateCost(entry.model, entry.usage))
         ins == insertEvent(db, event)
     IN  /\ db' = ins.db
         /\ Goto(w, "idle", IF ins.threw THEN "rejected" ELSE "stored")
         /\ wsOut' = IF ins.threw THEN <<>>
                     ELSE IF entry.type = "user"
                     THEN <<EventMessage(ins.id, slice(entry.content, LiveContentCap))>>
                     ELSE <<EventMessage(ins.id, slice(entry.content, LiveContentCap)),
                            StatsMessage>>
  /\ pass' = NoPass
  /\ UNCHANGED <<files, appended, modified, classified, watchVars, wsVars, reading, call>>

NextConc ==
  \/ \E w \in Writers, sessionId \in SessionIds, entry \in WriterEntries :
       WBegin(w, sessionId, entry)
  \/ \E w \in Writers : WCheck(w)
  \/ \E w \in Writers : WSession(w)
  \/ \E w \in Writers : WTrack(w)
  \/ \E w \in Writers : WTotals(w)
  \/ \E w \in Writers : WInsert(w)
  \/ \E body \in HookBodies : PostEvent(body)

SpecConc == Init /\ [][NextConc]_vars

(* ------------------------- Change Watcher ------------------------------- *)
\* clearTimeout: the timer no longer fires; clearing a fired timer does nothing
KeepTimeout(timers, filePath, timer) == timers
clearTimeout(timers, filePath, timer) == timers \ {<<filePath, timer>>}

\* the timers of a path that are still to fire
TimersOf(timers, filePath) == {t \in timers : t[1] = filePath}

\* TranscriptWatcher.stop: close the subscription, clear every timer of the map,
\* empty the map
stopKeepsTimers(st) == [st EXCEPT !.watcher = "closed"]
stop(st) ==
  [st EXCEPT !.watcher = "closed",
             !.scheduled = {t \in @ : st.debounceTimers[t[1]] # t[2]},
             !.debounceTimers = [p \in Paths |-> 0]]

\* the statements of the shutdown handler; it waits for app.close() to resolve
shutdownStoreFirst == <<"db.close", "watcher.stop", "await app.close", "process.exit">>
shutdown == <<"watcher.stop", "await app.close", "db.close", "process.exit">>

\* the handler runs from statement i until it waits or the process exits
RECURSIVE RunShutdown(_, _)
RunShutdown(st, i) ==
  IF i > Len(shutdown) THEN [st EXCEPT !.shut = Len(shutdown)]
  ELSE LET st1 == IF shutdown[i] = "watcher.stop" THEN stop(st)
                  ELSE IF shutdown[i] = "db.close" THEN [st EXCEPT !.storeOpen = FALSE]
                  ELSE st
       IN  IF shutdown[i] = "await app.close" THEN [st1 EXCEPT !.shut = i]
           ELSE IF shutdown[i] = "process.exit" THEN [st1 EXCEPT !.shut = Len(shutdown)]
           ELSE RunShutdown(st1, i + 1)

\* the process runs until process.exit; request handlers run until app.close()
\* has resolved
Exited == shut = Len(shutdown)
Awaiting == shut # 0 /\ ~Exited /\ shutdown[shut] = "await app.close"
Serving == shut = 0 \/ Awaiting

WatcherState ==
  [watcher |-> watcher, debounceTimers |-> debounceTimers, scheduled |-> scheduled,
   storeOpen |-> storeOpen, shut |-> shut]

SetWatcherState(st) ==
  /\ watcher' = st.watcher
  /\ debounceTimers' = st.debounceTimers
  /\ scheduled' = st.scheduled
  /\ storeOpen' = st.storeOpen
  /\ shut' = st.shut

\* the records the producers of the watched transcripts write, and the hook
\* events pushed meanwhile
WatchedLinesOf(filePath) == IF filePath = "/a/s1.jsonl" THEN {AssistantA} ELSE {}
WatchedBodies == {HookBody("s1", "SessionEnd", NoStr, "absent", 2)}

\* the catch of parseFile: statSync, readFileSync or the Store threw before
\* setFilePosition was reached
PositionAnyway(d, filePath, size) == setFilePosition(d, filePath, size)
StoreAfterError(d, filePath, size) == d

parseFileThrows(filePath) ==
  /\ db' = StoreAfterError(db, filePath, Size(files[filePath]))
  /\ wsOut' = <<>>
  /\ pass' = [NoPass EXCEPT !.op = "parseFile", !.path = filePath, !.error = TRUE]
  /\ UNCHANGED <<files, appended, modified, classified, writers>>

\* a file-system notification (add or change) for a path: handleFile
Notify(filePath) ==
  LET existing == debounceTimers[filePath]
      timer == notified + 1
      cleared == IF existing # 0 THEN clearTimeout(scheduled, filePath, existing)
                 ELSE scheduled
  IN  /\ watcher = "open" /\ ~Exited
      /\ notified < MaxNotifications
      /\ notified' = timer
      /\ scheduled' = cleared \cup {<<filePath, timer>>}
      /\ debounceTimers' = [debounceTimers EXCEPT ![filePath] = timer]
      /\ burst' = [burst EXCEPT ![filePath] = IF existing # 0 THEN @ + 1 ELSE 1]
      /\ wsOut' = <<>>
      /\ pass' = [NoPass EXCEPT !.op = "notify", !.path = filePath]
      /\ UNCHANGED <<files, appended, modified, db, classified, writers,
                     watcher, erred, shut, storeOpen, wsVars, reading, call>>

\* a debounce timer elapses: the callback runs parseFile, which succeeds or
\* fails to read the file, and deletes the entry of the path
TimerFire(t, readable) ==
  /\ t \in scheduled /\ ~Exited
  /\ scheduled' = scheduled \ {t}
  /\ debounceTimers' = [debounceTimers EXCEPT ![t[1]] = 0]
  /\ burst' = burst
  /\ IF readable /\ storeOpen
     THEN /\ parseFile(t[1])
          /\ erred' = erred
     ELSE /\ parseFileThrows(t[1])
          /\ erred' = erred \cup {t[1]}
  /\ UNCHANGED <<watcher, notified, shut, storeOpen, wsVars, reading, call>>

\* a request to POST /api/events is handled
Request(body) ==
  /\ Serving
  /\ IF storeOpen THEN postEvent(body)
     ELSE /\ pass' = [NoPass EXCEPT !.op = "postEvent", !.path = body.session_id,
                                    !.error = TRUE]
          /\ wsOut' = <<>>
          /\ UNCHANGED <<files, appended, modified, db, classified, writers>>
  /\ UNCHANGED <<watchVars, wsVars, reading, call>>

\* SIGINT or SIGTERM: the shutdown handler runs until it waits for app.close()
Signal ==
  /\ shut = 0
  /\ SetWatcherState(RunShutdown(WatcherState, 1))
  /\ wsOut' = <<>>
  /\ pass' = [NoPass EXCEPT !.op = "shutdown"]
  /\ UNCHANGED <<files, appended, modified, db, classified, writers,
                 notified, burst, erred, wsVars, reading, call>>

\* app.close() has resolved: the shutdown handler runs to process.exit
Resume ==
  /\ Awaiting
  /\ SetWatcherState(RunShutdown(WatcherState, shut + 1))
  /\ wsOut' = <<>>
  /\ pass' = [NoPass EXCEPT !.op = "exit"]
  /\ UNCHANGED <<files, appended, modified, db, classified, writers,
                 notified, burst, erred, wsVars, reading, call>>

NextWatch ==
  \/ \E p \in Paths : \E l \in WatchedLinesOf(p) : AppendLine(p, l)
  \/ \E p \in Paths : Notify(p)
  \/ \E t \in scheduled : \E readable \in BOOLEAN : TimerFire(t, readable)
  \/ \E body \in WatchedBodies : Request(body)
  \/ Signal
  \/ Resume

SpecWatch == Init /\ [][NextWatch]_vars

\* a timer that is set and not cleared fires: the event loop runs every timer
\* that has elapsed, until the process exits
SpecWatchLive ==
  SpecWatch /\ \A p \in Paths :
    WF_vars(\E t \in TimersOf(scheduled, p) : \E readable \in BOOLEAN : TimerFire(t, readable))

(* --------------------- listeners and publishing ------------------------- *)
\* GET /ws: addClient registers the socket of a new connection
AddClient(socket) ==
  /\ readyState[socket] = "new"
  /\ readyState' = [readyState EXCEPT ![socket] = "open"]
  /\ clients' = SetAdd(clients, socket)
  /\ bcast' = [NoBroadcast EXCEPT !.before = clients]
  /\ wsOut' = <<>>
  /\ pass' = [NoPass EXCEPT !.op = "addClient", !.path = socket]
  /\ UNCHANGED <<files, appended, modified, db, classified, writers, watchVars, reading, call>>

\* the closing handshake of a socket starts: it is no longer open, its close
\* event has not been emitted yet
SocketClosing(socket) ==
  /\ readyState[socket] = "open"
  /\ readyState' = [readyState EXCEPT ![socket] = "closing"]
  /\ bcast' = [NoBroadcast EXCEPT !.before = clients]
  /\ wsOut' = <<>>
  /\ pass' = [NoPass EXCEPT !.op = "closing", !.path = socket]
  /\ UNCHANGED <<files, appended, modified, db, classified, writers, watchVars, clients, reading, call>>

\* the close event of a socket: the handler deletes it from the Set
SocketClose(socket) ==
  /\ readyState[socket] \in {"open", "closing"}
  /\ readyState' = [readyState EXCEPT ![socket] = "closed"]
  /\ clients' = Without(clients, socket)
  /\ bcast' = [NoBroadcast EXCEPT !.before = clients]
  /\ wsOut' = <<>>
  /\ pass' = [NoPass EXCEPT !.op = "close", !.path = socket]
  /\ UNCHANGED <<files, appended, modified, db, classified, writers, watchVars, reading, call>>

\* the error event of a socket: the handler deletes it from the Set; the
\* socket is closing from then on
SocketError(socket) ==
  /\ readyState[socket] = "open"
  /\ readyState' = [readyState EXCEPT ![socket] = "closing"]
  /\ clients' = Without(clients, socket)
  /\ bcast' = [NoBroadcast EXCEPT !.before = clients]
  /\ wsOut' = <<>>
  /\ pass' = [NoPass EXCEPT !.op = "error", !.path = socket]
  /\ UNCHANGED <<files, appended, modified, db, classified, writers, watchVars, reading, call>>

\* POST /api/events with listeners connected: processHookEvent writes to the
\* Store and broadcasts the event and the statistics; the sends to the sockets
\* of failing throw
PushEvent(body, failing) ==
  /\ postEvent(body)
  /\ LET st == [entries |-> clients, sent |-> NoBroadcast.sent, raised |-> FALSE]
         r == broadcastAll(st, readyState, failing, wsOut')
     IN  /\ clients' = r.entries
         /\ bcast' = [active |-> wsOut' # <<>>, before |-> clients,
                      failing |-> failing, messages |-> wsOut',
                      sent |-> r.sent, raised |-> r.raised,
                      returned |-> IF r.raised \/ wsOut' = <<>> THEN 0 ELSE wsOut'[1].id]
  /\ UNCHANGED <<watchVars, readyState, reading, call>>

\* the registered sockets that are open: a send can throw only for these
OpenClients == {c \in Sockets : readyState[c] = "open" /\ c \in Range(clients)}

NextWs ==
  \/ \E c \in Sockets : AddClient(c)
  \/ \E c \in Sockets : SocketClosing(c)
  \/ \E c \in Sockets : SocketClose(c)
  \/ \E c \in Sockets : SocketError(c)
  \/ \E body \in WatchedBodies : \E failing \in SUBSET OpenClients : PushEvent(body, failing)

SpecWs == Init /\ [][NextWs]_vars

(* ----------------------- calls of the Cost Model ------------------------ *)
\* the model identifiers handed to calculateCost: the four of the table,
\* the key default, an unknown one, one that Object.prototype defines, and a
\* missing one
CostModels ==
  {"claude-opus-4-5-20251101", "claude-sonnet-4-20250514",
   "claude-3-5-sonnet-20241022", "claude-3-5-haiku-20241022",
   "default", "some-model", "constructor", NoStr}

TokenCounts == {Absent} \cup 0..MaxTokens

\* the usage of the worked example: 2,000,000 input and 100,000 output tokens
ExampleUsage == Usage(2000000, 100000, Absent, Absent)

CostCalls ==
  {[op |-> "pending", fn |-> "calculateCost", model |-> m,
    usage |-> Usage(i, o, cw, cr)] :
     m \in CostModels, i \in TokenCounts, o \in TokenCounts,
     cw \in TokenCounts, cr \in TokenCounts}
  \cup {[op |-> "pending", fn |-> "calculateCost",
         model |-> "claude-sonnet-4-20250514", usage |-> ExampleUsage]}

InitCost ==
  /\ InitEngine
  /\ InitStore
  /\ call \in CostCalls

\* calculateCost(model, usage) is evaluated
CalculateCost ==
  /\ call.op = "pending" /\ call.fn = "calculateCost"
  /\ call' = [op |-> "calculateCost", model |-> call.model, usage |-> call.usage,
              result |-> calculateCost(call.model, call.usage)]
  /\ UNCHANGED <<engineVars, watchVars, wsVars, reading>>

NextCost == CalculateCost

SpecCost == InitCost /\ [][NextCost]_vars

(* ---------------------------- Query Surface ---------------------------- *)
\* the local calendar day of the call, new Date(); days are numbered
Today == 10

\* the timestamps of the Sessions the report reads: two a day, one in the
\* morning and one in the evening of local day d, 2 * d and 2 * d + 1, over the
\* days around the longest report
DayStamps == (2 * (Today - MaxDays - 1))..(2 * (Today + 1) + 1)

\* DATE(started_at, 'localtime')
LocalDate(ts) == ts \div 2

\* the Session rows of the Stores the report is asked of
ReportRow(id, started_at) ==
  [project_path |-> "/proj", git_branch |-> "main", started_at |-> started_at,
   ended_at |-> 0,
   total_input_tokens |-> IF id = "s1" THEN 3 ELSE 1,
   total_output_tokens |-> IF id = "s1" THEN 2 ELSE 1,
   total_cache_read_tokens |-> IF id = "s1" THEN 2 ELSE 0,
   total_cache_write_tokens |-> IF id = "s1" THEN 0 ELSE 1,
   total_cost_usd |-> IF id = "s1" THEN 3960 ELSE 2175,
   version |-> "2.0"]

ReportStores ==
  {[EmptyDb EXCEPT !.sessions = [id \in S |-> ReportRow(id, f[id])]] :
     S \in SUBSET SessionIds, f \in [SessionIds -> DayStamps]}

\* a Date in local time: its calendar day and its hour of the day.  In a time
\* zone whose daylight saving time begins at midnight, the days of skipped
\* have no 00:00; a local time that does not exist is taken at the offset
\* before the change, which is 01:00 of that day.
LocalTime(day, hour, skipped) ==
  IF hour = 0 /\ day \in skipped THEN [day |-> day, hour |-> 1]
  ELSE [day |-> day, hour |-> hour]

\* Date.prototype.setHours(0, 0, 0, 0), and setDate(getDate() + n), which
\* keeps the time of day
setHoursZero(date, skipped) == LocalTime(date.day, 0, skipped)
setDate(date, n, skipped) == LocalTime(date.day + n, date.hour, skipped)

\* d <= endDate compares the instants
NotAfter(d, endDate) ==
  d.day < endDate.day \/ (d.day = endDate.day /\ d.hour <= endDate.hour)

RECURSIVE SumColumn(_, _, _)
SumColumn(d, S, column) ==
  IF S = {} THEN 0
  ELSE LET s == CHOOSE x \in S : TRUE
       IN  d.sessions[s][column] + SumColumn(d, S \ {s}, column)

\* the SELECT: the Sessions grouped by the local date of their start, from
\* the date days before today on; the row of a date, or none
SessionsOn(d, date) == {s \in DOMAIN d.sessions : LocalDate(d.sessions[s].started_at) = date}

CostRows(d, days, today) ==
  {date \in {LocalDate(d.sessions[s].started_at) : s \in DOMAIN d.sessions} :
     date >= today - days}

\* AVG_INPUT_RATE - AVG_CACHE_READ_RATE, per million tokens, times 100
SavingsRate == 450

\* an entry of the result for a date with a row, and for a gap
ZeroSummary(date) ==
  [date |-> date, inputTokens |-> 0, outputTokens |-> 0, cacheReadTokens |-> 0,
   cacheWriteTokens |-> 0, costUsd |-> 0, costWithoutCache |-> 0, cacheSavings |-> 0]

CostSummary(d, date) ==
  LET S == SessionsOn(d, date)
      cacheReadSavings == SumColumn(d, S, "total_cache_read_tokens") * SavingsRate
  IN  [date |-> date,
       inputTokens |-> SumColumn(d, S, "total_input_tokens"),
       outputTokens |-> SumColumn(d, S, "total_output_tokens"),
       cacheReadTokens |-> SumColumn(d, S, "total_cache_read_tokens"),
       cacheWriteTokens |-> SumColumn(d, S, "total_cache_write_tokens"),
       costUsd |-> SumColumn(d, S, "total_cost_usd"),
       costWithoutCache |-> SumColumn(d, S, "total_cost_usd") + cacheReadSavings,
       cacheSavings |-> cacheReadSavings]

\* for (let d = new Date(startDate); d <= endDate; d.setDate(d.getDate() + 1))
RECURSIVE FillDays(_, _, _, _, _)
FillDays(d, rows, date, endDate, skipped) ==
  IF ~NotAfter(date, endDate) THEN <<>>
  ELSE <<IF date.day \in rows THEN CostSummary(d, date.day) ELSE ZeroSummary(date.day)>>
       \o FillDays(d, rows, setDate(date, 1, skipped), endDate, skipped)

getCostsByDay(d, days, today, skipped) ==
  LET rows == CostRows(d, days, today)
      endDate == setHoursZero([day |-> today, hour |-> 1], skipped)
      startDate == setDate(endDate, 1 - days, skipped)
  IN  FillDays(d, rows, startDate, endDate, skipped)

\* the calls of the report: the number of days, and the days of the range
\* that have no local midnight in the time zone of the process (none, or one)
DayCalls ==
  {[op |-> "pending", fn |-> "getCostsByDay", days |-> n, skipped |-> sk] :
     n \in 1..MaxDays,
     sk \in {{}} \cup {{day} : day \in (Today - MaxDays + 1)..Today}}

InitDays ==
  /\ InitEngine
  /\ db \in ReportStores
  /\ call \in DayCalls

\* GET /api/costs: getCostsByDay(days) is evaluated
GetCostsByDay ==
  /\ call.op = "pending" /\ call.fn = "getCostsByDay"
  /\ call' = [op |-> "getCostsByDay", days |-> call.days, skipped |-> call.skipped,
              result |-> getCostsByDay(db, call.days, Today, call.skipped)]
  /\ UNCHANGED <<engineVars, watchVars, wsVars, reading>>

NextDays == GetCostsByDay

SpecDays == InitDays /\ [][NextDays]_vars

(* ---------------------- records with long texts ------------------------- *)
\* user and assistant records whose text is longer than the caps, and push
\* records with a long prompt or a long tool input
UserLong == [UserC EXCEPT !.uuid = "u5", !.content = 5001]
UserMid == [UserC EXCEPT !.uuid = "u6", !.content = 501]
AssistantLong == [AssistantA EXCEPT !.uuid = "u7", !.content = 5001]

LongLinesOf(filePath) ==
  IF filePath = "/a/s1.jsonl" THEN {UserLong, AssistantLong} ELSE {UserMid, UserC}

LongBodies ==
  {[HookBody("s1", "UserPromptSubmit", NoStr, "absent", 1) EXCEPT !.prompt = 5001],
   [HookBody("s2", "UserPromptSubmit", NoStr, "absent", 1) EXCEPT !.prompt = 2],
   [HookBody("s2", "PreToolUse", "Bash", "absent", 2) EXCEPT !.tool_input = 1001],
   [HookBody("s1", "PreToolUse", "Bash", "absent", 2) EXCEPT !.tool_input = 400]}

NextContent ==
  \/ \E p \in Paths : \E l \in LongLinesOf(p) : AppendLine(p, l)
  \/ \E p \in Paths : ParseFile(p)
  \/ \E body \in LongBodies : PostEvent(body)

SpecContent == Init /\ [][NextContent]_vars

(* ------------------- a pass, statement by statement --------------------- *)
\* parseFile runs without interruption by other handlers of the process; the
\* producer of the file is another process and writes between its statements,
\* and the process can die between them and be started again with the Store
\* as the dead process left it.
PassLinesOf(filePath) ==
  IF filePath = "/a/s1.jsonl" THEN {AssistantA, Garbage} ELSE {UserC}

\* statSync(filePath) and repo.getFilePosition(filePath)
PassStat(filePath) ==
  /\ reading.pc = "idle"
  /\ reading' = [reading EXCEPT !.pc = "stat", !.path = filePath,
                                !.size = Size(files[filePath]),
                                !.startPosition = getFilePosition(db, filePath),
                                !.lines = <<>>, !.fed = <<>>]
  /\ wsOut' = <<>>
  /\ pass' = [NoPass EXCEPT !.op = "stat", !.path = filePath]
  /\ UNCHANGED <<files, appended, modified, db, classified, writers,
                 watchVars, wsVars, call>>

\* readFileSync and the split into lines
PassRead ==
  /\ reading.pc = "stat"
  /\ reading' = [reading EXCEPT !.pc = "lines",
                                !.lines = SplitLines(files[reading.path])]
  /\ modified' = [modified EXCEPT ![reading.path] = FALSE]
  /\ wsOut' = <<>>
  /\ pass' = [NoPass EXCEPT !.op = "read", !.path = reading.path]
  /\ UNCHANGED <<files, appended, db, classified, writers, watchVars, wsVars, call>>

\* one turn of the loop: JSON.parse and processEntry inside try/catch
PassLine ==
  /\ reading.pc = "lines" /\ reading.lines # <<>>
  /\ \E now \in Nows :
       LET line == Head(reading.lines)
           sessionId == SessionIdOf(reading.path)
           r == IF line.json THEN processEntry(db, line, sessionId, now)
                ELSE Step(db, <<>>, TRUE, 0)
       IN  /\ Len(r.db.events) <= MaxEvents
           /\ db' = r.db
           /\ wsOut' = r.out
           /\ reading' = [reading EXCEPT !.lines = Tail(@),
                                         !.fed = IF line.json THEN Append(@, line) ELSE @]
           /\ classified' = IF line.json THEN classified \cup {<<sessionId, line>>}
                             ELSE classified
  /\ pass' = [NoPass EXCEPT !.op = "line", !.path = reading.path]
  /\ UNCHANGED <<files, appended, modified, writers, watchVars, wsVars, call>>

\* after the loop: repo.setFilePosition(filePath, stat.size), and the return
PassEnd ==
  /\ reading.pc = "lines" /\ reading.lines = <<>>
  /\ db' = setFilePosition(db, reading.path,
                           PassPosition(reading.size, reading.startPosition))
  /\ reading' = [reading EXCEPT !.pc = "idle"]
  /\ wsOut' = <<>>
  /\ pass' = [NoPass EXCEPT !.op = "setFilePosition", !.path = reading.path,
                            !.size = reading.size,
                            !.startPosition = reading.startPosition,
                            !.fed = reading.fed]
  /\ UNCHANGED <<files, appended, modified, classified, writers,
                 watchVars, wsVars, call>>

\* the process dies during a pass; it is started again with no pass in progress
Crash ==
  /\ reading.pc # "idle"
  /\ reading.crashes < MaxCrashes
  /\ reading' = [IdleReader EXCEPT !.crashes = reading.crashes + 1,
                                   !.crashedPath = reading.path]
  /\ wsOut' = <<>>
  /\ pass' = [NoPass EXCEPT !.op = "crash", !.path = reading.path]
  /\ UNCHANGED <<files, appended, modified, db, classified, writers,
                 watchVars, wsVars, call>>

NextPass ==
  \/ \E p \in Paths : \E l \in PassLinesOf(p) : AppendLine(p, l)
  \/ \E p \in Paths : PassStat(p)
  \/ PassRead
  \/ PassLine
  \/ PassEnd
  \/ Crash

SpecPass == Init /\ [][NextPass]_vars

(* ------------------- records whose processing fails --------------------- *)
\* an assistant record without a usage object that names an mcp tool, an
\* assistant record without a timestamp, and beside them records that are
\* stored, found in both transcripts, or of no recognized type; a push record
\* arrives meanwhile
AssistantNoUsage ==
  Line("assistant", "u5", 1, NoUsage, "claude-sonnet-4-20250514", <<"mcp__srv__t">>, 2)
AssistantNoTime == [AssistantA EXCEPT !.uuid = "u6", !.timestamp = 0]

FailingLinesOf(filePath) ==
  IF filePath = "/a/s1.jsonl" THEN {AssistantNoUsage, AssistantNoTime, AssistantA}
  ELSE {AssistantNoTime, UserC, AssistantA, Summary}

\* a pass the watcher starts: the file was written since the last pass over it
ChangedFilePass(filePath) == modified[filePath] /\ ParseFile(filePath)

NextFailing ==
  \/ \E p \in Paths : \E l \in FailingLinesOf(p) : AppendLine(p, l)
  \/ \E p \in Paths : ChangedFilePass(p)
  \/ \E body \in WatchedBodies : PostEvent(body)

SpecFailing == Init /\ [][NextFailing]_vars

(* -------------------- the files ingested in two orders ------------------ *)
\* the records of the transcripts at start-up: both transcripts may hold the
\* same record, as after a resume or a fork
OrderLines == {AssistantA, AssistantB, AssistantNoId, UserC, AssistantNoTime}

RECURSIVE SeqsUpTo(_, _)
SeqsUpTo(S, n) ==
  IF n = 0 THEN {<<>>}
  ELSE SeqsUpTo(S, n - 1)
       \cup {Append(q, x) : q \in {r \in SeqsUpTo(S, n - 1) : Len(r) = n - 1}, x \in S}

\* parseFile over a file with the given content, on a given Store
PassOver(d, filePath, content, now) ==
  LET r == ParseLines(d, SplitLines(content), SessionIdOf(filePath), now)
  IN  setFilePosition(r.db, filePath,
                      PassPosition(Size(content), getFilePosition(d, filePath)))

\* the watcher hands the files to parseFile one after the other, in the order
\* in which their timers fire
RECURSIVE PassesInOrder(_, _, _, _)
PassesInOrder(d, order, contents, now) ==
  IF order = <<>> THEN d
  ELSE PassesInOrder(PassOver(d, Head(order), contents[Head(order)], now),
                     Tail(order), contents, now)

OrderCalls ==
  {[op |-> "pending", fn |-> "ingest", contents |-> c] :
     c \in [Paths -> SeqsUpTo(OrderLines, MaxAppends)]}

InitOrder ==
  /\ InitEngine
  /\ InitStore
  /\ call \in OrderCalls

\* the files are ingested from an empty Store, in the one order and the other
IngestFiles ==
  /\ call.op = "pending" /\ call.fn = "ingest"
  /\ \E now \in Nows :
       call' = [op |-> "ingest", contents |-> call.contents,
                forth |-> PassesInOrder(db, <<"/a/s1.jsonl", "/b/s2.jsonl">>, call.contents, now),
                back |-> PassesInOrder(db, <<"/b/s2.jsonl", "/a/s1.jsonl">>, call.contents, now)]
  /\ UNCHANGED <<engineVars, watchVars, wsVars, reading>>

NextOrder == IngestFiles

SpecOrder == InitOrder /\ [][NextOrder]_vars

(* ------------------------ calls of upsertSession ------------------------ *)
\* the arguments handed to upsertSession: for each session id, the fields
\* processEntry supplies for a record, the totals processAssistantEntry
\* supplies for a usage, the start and the end processHookEvent supplies, and
\* all of the fields of a Session at once
UpsertUsages == {AssistantA.usage, AssistantB.usage, Usage(0, 1, 2, 1)}

UpsertArgs ==
  UNION {
    {SessionMeta(AssistantA, id), SessionMeta(UserC, id),
     HookSession(HookBody(id, "SessionStart", NoStr, "absent", 2)),
     [SessionArg(id) EXCEPT !.ended_at = 3]}
    \cup {SessionTotals(id, extractTokens(u), calculateCost("claude-sonnet-4-20250514", u)) :
            u \in UpsertUsages}
    \cup {[SessionMeta(AssistantA, id) EXCEPT
             !.ended_at = 3,
             !.total_input_tokens = 3, !.total_output_tokens = 1,
             !.total_cache_read_tokens = 2, !.total_cache_write_tokens = 1,
             !.total_cost_usd = 1500]}
    : id \in SessionIds}

\* repo.upsertSession(session) is called
UpsertSession(session) ==
  /\ IF call.op = "none" THEN TRUE ELSE call.n < MaxWrites
  /\ \E now \in Nows : db' = upsertSession(db, session, now)
  /\ call' = [op |-> "upsertSession", session |-> session,
              n |-> IF call.op = "none" THEN 1 ELSE call.n + 1]
  /\ wsOut' = <<>>
  /\ pass' = NoPass
  /\ UNCHANGED <<files, appended, modified, classified, writers, watchVars, wsVars, reading>>

NextUpsert == \E session \in UpsertArgs : UpsertSession(session)

SpecUpsert == Init /\ [][NextUpsert]_vars

(* ============================ properties ================================ *)
\* the rows of events that carry the identifier uuid
EventsWithUuid(d, uuid) == {i \in 1..Len(d.events) : d.events[i].uuid = uuid}

\* a record's identifier is already in the Store
Stored(d, entry) == entry.uuid # NoStr /\ EventsWithUuid(d, entry.uuid) # {}

\* the Sessions, Events and Per-Tool Statistics of a Store, without the Cursors
StoreOf(d) == [sessions |-> d.sessions, events |-> d.events, mcp_tools |-> d.mcp_tools]

\* the five running totals of every Session
TotalsOf(d) ==
  [s \in DOMAIN d.sessions |->
     <<d.sessions[s].total_input_tokens, d.sessions[s].total_output_tokens,
       d.sessions[s].total_cache_read_tokens, d.sessions[s].total_cache_write_tokens,
       d.sessions[s].total_cost_usd>>]

\* C1: in every reachable state of the Store, whatever records the writers
\* process under whatever session ids and whatever push events arrive, no two
\* stored Events carry the same non-null uuid.
UuidGloballyUnique ==
  \A i, j \in 1..Len(db.events) :
    (i # j /\ db.events[i].uuid # NoStr) => db.events[i].uuid # db.events[j].uuid

\* C1 witness: a writer's insert was rejected because the other writer had
\* stored the same uuid, under another session id, after the writer's check
UuidRaceRejected ==
  \E w \in Writers :
    /\ writers[w].outcome = "rejected"
    /\ \E i \in EventsWithUuid(db, writers[w].entry.uuid) :
         db.events[i].session_id # writers[w].sessionId

\* C2 (as claimed): a parseFile pass over a file that was not written since
\* the pass that set its Cursor, so that the Cursor covers the whole file,
\* stores no new Event and leaves every Session's running totals unchanged.
IdempotentReingestion ==
  [][\A p \in Paths :
       ( /\ pass'.op = "parseFile" /\ pass'.path = p
         /\ p \in DOMAIN db.file_positions
         /\ ~modified[p]
         /\ db.file_positions[p] = Size(files[p]) )
       => (db'.events = db.events /\ TotalsOf(db') = TotalsOf(db))]_vars

\* the records of a pass whose identifier was not in the Store before the pass
NotStored(d, fed) ==
  SelectSeq(fed, LAMBDA entry : ~Stored(d, entry))

McpTool == "mcp__srv__t"

\* what one record is expected to add to a running total of its Session
Contribution(entry, total) ==
  CASE total = "input" -> OrZero(entry.usage.input_tokens)
                          + OrZero(entry.usage.cache_read_input_tokens)
    [] total = "output" -> OrZero(entry.usage.output_tokens)
    [] total = "cacheRead" -> OrZero(entry.usage.cache_read_input_tokens)
    [] total = "cacheWrite" -> OrZero(entry.usage.cache_creation_input_tokens)
    [] total = "cost" -> calculateCost(entry.model, entry.usage)

RECURSIVE SumOver(_, _)
SumOver(S, total) ==
  IF S = {} THEN 0
  ELSE LET x == CHOOSE y \in S : TRUE
       IN  Contribution(x, total) + SumOver(S \ {x}, total)

\* the records handed to the classifier under a session id so far
RecordsOf(sessionId) == {entry \in Lines : <<sessionId, entry>> \in classified}

\* the records of a session are assistant records with usage and with
\* identifiers distinct from one another and from those of the other sessions
DistinctAssistantRecords(sessionId) ==
  /\ RecordsOf(sessionId) # {}
  /\ \A entry \in RecordsOf(sessionId) :
       /\ entry.type = "assistant" /\ entry.uuid # NoStr /\ entry.usage.present
       /\ \A other \in RecordsOf(sessionId) : other.uuid = entry.uuid => other = entry
       /\ \A c \in classified : c[2].uuid = entry.uuid => c[1] = sessionId

\* C4: for assistant records with distinct identifiers belonging to one
\* session, processed in whatever order and however often, the Session's token
\* totals are the elementwise sums of the per-record usage (input total:
\* input + cache-read tokens) and its cost is the sum of the per-record costs.
AdditiveTotals ==
  \A s \in SessionIds :
    DistinctAssistantRecords(s) =>
      /\ s \in DOMAIN db.sessions
      /\ db.sessions[s].total_input_tokens =
           SumOver(RecordsOf(s), "input")
      /\ db.sessions[s].total_output_tokens =
           SumOver(RecordsOf(s), "output")
      /\ db.sessions[s].total_cache_read_tokens =
           SumOver(RecordsOf(s), "cacheRead")
      /\ db.sessions[s].total_cache_write_tokens =
           SumOver(RecordsOf(s), "cacheWrite")
      /\ db.sessions[s].total_cost_usd =
           SumOver(RecordsOf(s), "cost")

\* C4 witness: two assistant records of one session, the later one in the
\* file processed first, and both read again by a second pass
TwoRecordsSummed ==
  /\ RecordsOf("s1") = {AssistantA, AssistantB}
  /\ Len(db.events) = 2 /\ db.events[1].uuid = AssistantB.uuid
  /\ pass.op = "parseFile" /\ pass.startPosition > 0

\* the inputs of the Store methods for one record
TotalsOfRecord(sessionId, entry) ==
  SessionTotals(sessionId, extractTokens(entry.usage),
                calculateCost(entry.model, entry.usage))

EventOfRecord(sessionId, entry) ==
  IF entry.type = "assistant"
  THEN AssistantEvent(entry, sessionId, extractTokens(entry.usage),
                      calculateCost(entry.model, entry.usage))
  ELSE UserEvent(entry, sessionId)

Records == {entry \in Lines : entry.json /\ entry.type \in {"user", "assistant"}}

ConcurrentWritersCountOnce ==
  \A s \in SessionIds : \A entry \in WriterEntries :
    ( /\ entry.type = "assistant"
      /\ \A w \in Writers :
           /\ writers[w].pc = "idle" /\ writers[w].n = 1
           /\ writers[w].entry = entry /\ writers[w].sessionId = s )
    => /\ Cardinality(EventsWithUuid(db, entry.uuid)) = 1
       /\ db.sessions[s].total_input_tokens = extractTokens(entry.usage).totalInput
       /\ db.sessions[s].total_output_tokens = extractTokens(entry.usage).output
       /\ db.sessions[s].total_cost_usd = calculateCost(entry.model, entry.usage)

\* the records among the lines of a file: neither blank nor rejected by JSON.parse
IsRecord(line) == line.json /\ ~line.blank
RecordsIn(content) == SelectSeq(content, IsRecord)

\* C7: when the file's size at the start of a pass is smaller than its stored
\* Cursor, the pass reads from offset 0 and hands every record of the file to
\* the classifier, the records whose identifier is already stored add nothing
\* to any Session's totals and leave their Event as it is, and the Cursor is
\* set to the new, smaller size.
TruncationRecovery ==
  [][\A p \in Paths :
       (pass'.op = "parseFile" /\ pass'.path = p
        /\ Size(files[p]) < getFilePosition(db, p))
       => /\ pass'.readFrom = 0
          /\ pass'.fed = RecordsIn(files[p])
          /\ \E now \in Nows :
               TotalsOf(db') =
                 TotalsOf(ParseLines(db, NotStored(db, RecordsIn(files[p])),
                                     SessionIdOf(p), now).db)
          /\ \A i \in 1..Len(pass'.fed) :
               Stored(db, pass'.fed[i]) =>
                 EventsWithUuid(db', pass'.fed[i].uuid)
                   = EventsWithUuid(db, pass'.fed[i].uuid)
          /\ getFilePosition(db', p) = Size(files[p])
          /\ getFilePosition(db', p) < getFilePosition(db, p)]_vars

\* C7 witness: a pass over a file that shrank below its Cursor was handed a
\* record whose identifier was stored by an earlier pass
ShrunkFileReparsed ==
  /\ pass.op = "parseFile"
  /\ pass.size < pass.startPosition
  /\ \E i \in 1..Len(pass.fed) : Stored(db, pass.fed[i])
  /\ Len(db.events) > Len(pass.fed)

\* the byte offset at which line i of a file starts
RECURSIVE OffsetOf(_, _)
OffsetOf(content, i) ==
  IF i = 1 THEN 0 ELSE OffsetOf(content, i - 1) + content[i - 1].len + 1

\* the records of a file that do not lie wholly before a byte offset
RECURSIVE RecordsFrom(_, _, _)
RecordsFrom(content, i, offset) ==
  IF i > Len(content) THEN <<>>
  ELSE (IF IsRecord(content[i]) /\ OffsetOf(content, i) + content[i].len + 1 > offset
        THEN <<content[i]>> ELSE <<>>)
       \o RecordsFrom(content, i + 1, offset)

\* C8 (as claimed): when the file's size is at least the stored Cursor, a
\* pass hands to the classifier only the records lying in the byte range from
\* the Cursor to the end of the file; records wholly before the Cursor are not
\* parsed again.
ReadsOnlyNewBytes ==
  [][\A p \in Paths :
       (pass'.op = "parseFile" /\ pass'.path = p
        /\ Size(files[p]) >= getFilePosition(db, p))
       => pass'.fed = RecordsFrom(files[p], 1, getFilePosition(db, p))]_vars

\* C9: the stored Cursor of a path decreases in a step only if the step is a
\* pass over that path which found the file smaller than the stored Cursor
CursorMonotonic ==
  [][\A p \in Paths :
       getFilePosition(db', p) < getFilePosition(db, p)
       => (pass'.op = "parseFile" /\ pass'.path = p
           /\ Size(files[p]) < getFilePosition(db, p))]_vars

\* C9 witness: a pass over a file that grew moved the Cursor forward from a
\* position that an earlier pass had stored
CursorAdvanced ==
  /\ pass.op = "parseFile"
  /\ pass.startPosition > 0
  /\ pass.size > pass.startPosition
  /\ getFilePosition(db, pass.path) = pass.size

\* the lines of a file that JSON.parse accepts, blank lines included
Parseable(line) == line.json \/ line.blank
WithoutMalformed(content) == SelectSeq(content, Parseable)

\* C10: a line that cannot be parsed is skipped without ending the pass, and
\* the well-formed lines of the pass are processed (Store and broadcasts)
\* exactly as if the malformed lines were absent from the file.
MalformedLineSkipped ==
  [][\A p \in Paths :
       (pass'.op = "parseFile" /\ pass'.path = p) =>
         \E now \in Nows :
           LET r == ParseLines(db, SplitLines(WithoutMalformed(files[p])),
                               SessionIdOf(p), now)
           IN  /\ StoreOf(db') = StoreOf(r.db)
               /\ wsOut' = r.out
               /\ pass'.fed = r.fed
               /\ getFilePosition(db', p) = Size(files[p])]_vars

\* C10 witness: the first line of the file is malformed, the record after it
\* was handed to the classifier and its Event is stored
RecordAfterMalformedStored ==
  /\ pass.op = "parseFile"
  /\ Len(files[pass.path]) = 2
  /\ ~files[pass.path][1].json /\ ~files[pass.path][1].blank
  /\ pass.fed = <<files[pass.path][2]>>
  /\ Stored(db, files[pass.path][2])
  /\ wsOut # <<>>

\* the Events stored for a record: those with its identifier, or for a record
\* without identifier those with its session, type, time and model
EventsOfRecord(d, sessionId, entry) ==
  {i \in 1..Len(d.events) :
     IF entry.uuid # NoStr THEN d.events[i].uuid = entry.uuid
     ELSE /\ d.events[i].uuid = NoStr
          /\ d.events[i].session_id = sessionId
          /\ d.events[i].entry_type = entry.type
          /\ d.events[i].timestamp = entry.timestamp
          /\ d.events[i].model = entry.model}

\* C11 (as claimed): a record whose line a pass read while it was partially
\* written is, once the line has been completed and a pass has run over the
\* completed file, stored as exactly one Event: it is not lost and not stored twice.
TornRecordStoredOnce ==
  \A p \in Paths : \A i \in 1..Len(files[p]) :
    (files[p][i].torn = "completed" /\ ~modified[p]
     /\ files[p][i].type \in {"user", "assistant"})
    => Cardinality(EventsOfRecord(db, SessionIdOf(p), files[p][i])) = 1

\* the earlier of two timestamps, by the instants they denote
EarlierInstant(t1, t2) == IF Instant(t2) < Instant(t1) THEN t2 ELSE t1

\* C12 (as claimed): after every call of upsertSession that carries a start
\* timestamp, the stored start timestamp of the session is the earliest of the
\* start timestamps supplied so far: the supplied one for a new session, the
\* earlier of the stored and the supplied one for an existing session.
StartIsMinimum ==
  [][(pass'.op = "postEvent" /\ pass'.path \in DOMAIN db'.sessions) =>
       LET s == pass'.path IN
       db'.sessions[s].started_at =
         IF s \in DOMAIN db.sessions
         THEN EarlierInstant(db.sessions[s].started_at, pass'.timestamp)
         ELSE pass'.timestamp]_vars

\* the same for timestamps that are all written as toISOString() writes them
StartIsMinimumUniform ==
  [][(pass'.op = "postEvent" /\ pass'.path \in DOMAIN db'.sessions
      /\ pass'.timestamp # SecondsStamp
      /\ \A s \in DOMAIN db.sessions : db.sessions[s].started_at # SecondsStamp) =>
       LET s == pass'.path IN
       db'.sessions[s].started_at =
         IF s \in DOMAIN db.sessions
         THEN EarlierInstant(db.sessions[s].started_at, pass'.timestamp)
         ELSE pass'.timestamp]_vars

DebounceOncePerBurst ==
  /\ [][\A p \in Paths :
          /\ Cardinality(TimersOf(scheduled', p)) <= 1
          /\ (pass'.op = "notify" /\ pass'.path = p) =>
               /\ TimersOf(scheduled', p) = {<<p, notified'>>}
               /\ debounceTimers'[p] = notified'
               /\ db' = db
          /\ (pass'.op = "notify" /\ pass'.path # p) =>
               /\ TimersOf(scheduled', p) = TimersOf(scheduled, p)
               /\ debounceTimers'[p] = debounceTimers[p]
          /\ (pass'.op = "parseFile" /\ pass'.path = p) =>
               /\ debounceTimers[p] # 0
               /\ TimersOf(scheduled, p) = {<<p, debounceTimers[p]>>}
               /\ TimersOf(scheduled', p) = {}
               /\ debounceTimers'[p] = 0]_vars
  /\ \A p \in Paths :
       (TimersOf(scheduled, p) # {})
         ~> ((pass.op = "parseFile" /\ pass.path = p) \/ watcher = "closed")

\* C14 witness: the pipeline has run for a path after a burst of two
\* notifications for it, while the timer of the other path is still pending
BurstOfTwoRanOnce ==
  /\ pass.op = "parseFile"
  /\ burst[pass.path] = 2
  /\ TimersOf(scheduled, pass.path) = {}
  /\ \E q \in Paths \ {pass.path} : TimersOf(scheduled, q) # {}
  /\ notified = 3

\* C15: once stop() has run, no timer is pending and the timer map is empty,
\* in that state and ever after, and no step afterwards runs parseFile or sets
\* a timer.
StopCancelsEverything ==
  [][watcher' = "closed" =>
       /\ scheduled' = {}
       /\ \A p \in Paths : debounceTimers'[p] = 0
       /\ (watcher = "closed" => pass'.op \notin {"parseFile", "notify"})]_vars

\* C15 witness: stop() has run while the timers of both paths were pending
StoppedWithTwoPending ==
  /\ watcher = "closed"
  /\ pass.op = "shutdown"
  /\ \A p \in Paths : burst[p] > 0 /\ p \notin DOMAIN db.file_positions
  /\ erred = {}
  /\ scheduled = {}

\* C16: the Store handle is closed only when the subscription is closed, no
\* timer is pending and the timer map is empty, and once the handle is closed
\* no step attempts a Store write, neither a file pass nor a push event.
NoWriteAfterStoreClosed ==
  [][/\ ~storeOpen' =>
          /\ watcher' = "closed"
          /\ scheduled' = {}
          /\ \A p \in Paths : debounceTimers'[p] = 0
     /\ ~storeOpen => pass'.op \notin {"parseFile", "postEvent"}
     /\ (storeOpen /\ ~storeOpen') => (watcher = "closed" /\ scheduled = {})]_vars

\* C16 witness: the process has exited with the Store closed after a shutdown
\* that cancelled a pending timer and during which a push event was stored
ShutDownWithPendingWork ==
  /\ pass.op = "exit"
  /\ ~storeOpen
  /\ \E p \in Paths : burst[p] > 0 /\ p \notin DOMAIN db.file_positions /\ p \notin erred
  /\ Len(db.events) > 0

\* C17: a pass that fails to read its file leaves the Store, and so the
\* file's Cursor, as it was, leaves the watcher, the process and the pending
\* timers of the other paths as they were, and leaves no timer entry for its
\* own path; and a timer set by a later notification for a path whose pass has
\* failed leads to a new pass over it unless the watcher is stopped first.
FileErrorContained ==
  /\ [][\A p \in Paths :
          (pass'.op = "parseFile" /\ pass'.path = p /\ pass'.error) =>
            /\ db' = db
            /\ watcher' = watcher /\ shut' = shut /\ storeOpen' = storeOpen
            /\ \A q \in Paths \ {p} :
                 /\ TimersOf(scheduled', q) = TimersOf(scheduled, q)
                 /\ debounceTimers'[q] = debounceTimers[q]
            /\ TimersOf(scheduled', p) = {}
            /\ debounceTimers'[p] = 0]_vars
  /\ \A p \in Paths :
       (p \in erred /\ TimersOf(scheduled, p) # {})
         ~> ((pass.op = "parseFile" /\ pass.path = p) \/ watcher = "closed")

\* C17 witness: after a failed pass over a file, a later pass over the same
\* file has stored its record and set its Cursor
PassAfterFailedPass ==
  /\ pass.op = "parseFile" /\ ~pass.error
  /\ pass.path \in erred
  /\ pass.fed # <<>>
  /\ getFilePosition(db, pass.path) = Size(files[pass.path])
  /\ Len(db.events) > 0

\* how often a message occurs among the messages a socket was sent
Count(seq, message) == Cardinality({i \in 1..Len(seq) : seq[i] = message})

\* the registered sockets whose send throws in a broadcast: they are open
FailedSends(entries, ready, failing) ==
  {c \in Range(entries) : ready[c] = "open" /\ c \in failing}

\* C18: a broadcast sends each message exactly once to every socket that is
\* registered and open and whose send succeeds, and to no other socket; the
\* sockets whose send failed are no longer registered, the others still are;
\* the broadcast does not raise; no step other than a broadcast delivers
\* anything, so a socket registered later receives nothing of it; and a socket
\* that has closed is never registered.
BroadcastDelivers ==
  /\ [][/\ bcast'.active =>
             /\ ~bcast'.raised
             /\ \A c \in Sockets : \A k \in 1..Len(bcast'.messages) :
                  Count(bcast'.sent[c], bcast'.messages[k]) =
                    IF c \in Range(clients) /\ readyState[c] = "open"
                       /\ c \notin bcast'.failing
                    THEN 1 ELSE 0
             /\ Range(clients') =
                  Range(clients) \ FailedSends(clients, readyState, bcast'.failing)
        /\ ~bcast'.active => \A c \in Sockets : bcast'.sent[c] = <<>>]_vars
  /\ [](\A c \in Sockets : readyState[c] = "closed" => c \notin Range(clients))

\* C18 witness: in one broadcast a socket received both messages, the send to
\* another open socket failed and it was dropped, and a third, registered but
\* no longer open, received nothing and is still registered
DeliveredDroppedSkipped ==
  /\ bcast.active /\ Len(bcast.messages) = 2
  /\ \E c1, c2, c3 \in Sockets :
       /\ bcast.sent[c1] = bcast.messages
       /\ c2 \in bcast.failing /\ c2 \in Range(bcast.before) /\ c2 \notin Range(clients)
       /\ readyState[c3] = "closing" /\ c3 \in Range(clients) /\ bcast.sent[c3] = <<>>

\* C19: when a broadcast deletes sockets from the Set it is iterating, it does
\* not raise, every other registered open socket is still sent each message
\* exactly once, and the Set keeps the other sockets in their order; and the
\* handlers that register or deregister a socket between broadcasts leave a
\* Set without deleted entries in which no socket occurs twice.
RemovalDuringBroadcastSafe ==
  [][/\ (bcast'.active /\ FailedSends(clients, readyState, bcast'.failing) # {}) =>
          /\ ~bcast'.raised
          /\ \A j \in 1..Len(clients) :
               (readyState[clients[j]] = "open" /\ clients[j] \notin bcast'.failing) =>
                 \A k \in 1..Len(bcast'.messages) :
                   Count(bcast'.sent[clients[j]], bcast'.messages[k]) = 1
          /\ clients' = SelectSeq(clients,
                          LAMBDA c : c \notin FailedSends(clients, readyState, bcast'.failing))
     /\ pass'.op \in {"addClient", "close", "error"} =>
          /\ Hole \notin Range(clients')
          /\ Cardinality(Range(clients')) = Len(clients')]_vars

\* C19 witness: the send to the first socket of the Set failed and the socket
\* after it was sent both messages
LaterSocketStillServed ==
  /\ bcast.active /\ Len(bcast.messages) = 2
  /\ Len(bcast.before) >= 2
  /\ bcast.before[1] \in bcast.failing
  /\ readyState[bcast.before[1]] = "open"
  /\ bcast.sent[bcast.before[2]] = bcast.messages

\* C20: a push event with session id and event name leaves its Session in the
\* Store and one more Event, the hook Event of that session, and
\* processHookEvent returns that Event without raising, whatever sends fail.
IngestionSurvivesDeliveryFailure ==
  [][(pass'.op = "postEvent" /\ pass'.path # NoStr) =>
       /\ pass'.path \in DOMAIN db'.sessions
       /\ Len(db'.events) = Len(db.events) + 1
       /\ db'.events[Len(db'.events)].session_id = pass'.path
       /\ db'.events[Len(db'.events)].event_type = "hook"
       /\ ~bcast'.raised
       /\ bcast'.returned = Len(db'.events)]_vars

\* C20 witness: a push event was stored and returned although the sends to
\* every registered open socket failed
StoredThoughAllSendsFailed ==
  /\ pass.op = "postEvent"
  /\ bcast.active
  /\ Cardinality(FailedSends(bcast.before, readyState, bcast.failing)) >= 2
  /\ \A c \in Sockets : bcast.sent[c] = <<>>
  /\ bcast.returned = Len(db.events)
  /\ Len(db.events) > 0

\* the records of a pass are all of a type other than user and assistant
OnlyOtherTypes(fed) ==
  fed # <<>> /\ \A i \in 1..Len(fed) : fed[i].type \notin {"user", "assistant"}

\* C22 (as claimed): a file record whose type is neither user nor assistant is
\* a no-op: a pass that was handed only such records stores no Event, creates
\* no Session row, changes no field of a Session or a Per-Tool Statistic, and
\* broadcasts nothing.
OtherTypeIsNoOp ==
  [][(pass'.op = "parseFile" /\ OnlyOtherTypes(pass'.fed)) =>
       (StoreOf(db') = StoreOf(db) /\ wsOut' = <<>>)]_vars

\* what does hold of such a pass: no Event, no Per-Tool Statistic, no
\* broadcast, no change to the totals of a Session that exists
OtherTypeStoresNoEvent ==
  [][(pass'.op = "parseFile" /\ OnlyOtherTypes(pass'.fed)) =>
       /\ db'.events = db.events
       /\ db'.mcp_tools = db.mcp_tools
       /\ wsOut' = <<>>
       /\ \A s \in DOMAIN db.sessions : TotalsOf(db')[s] = TotalsOf(db)[s]]_vars

\* C29 (as claimed): every new Event of a pass is persisted and then handed to
\* the broadcaster together with refreshed stats: the messages of the pass
\* are, for each new Event in the order of the inserts, one event message
\* bearing the id of the stored row and one stats_update message after it.
PersistThenPublishWithStats ==
  [][pass'.op = "parseFile" =>
       LET new == Len(db'.events) - Len(db.events) IN
       /\ Len(wsOut') = 2 * new
       /\ \A k \in 1..new :
            /\ wsOut'[2 * k - 1].type = "event"
            /\ wsOut'[2 * k - 1].id = Len(db.events) + k
            /\ wsOut'[2 * k].type = "stats_update"]_vars

\* the <<type, id>> of the messages the code publishes for the Events with
\* the ids from..to of a Store: stats follow an assistant Event only
RECURSIVE PublishedFor(_, _, _)
PublishedFor(d, from, to) ==
  IF from > to THEN <<>>
  ELSE (IF d.events[from].entry_type = "assistant"
        THEN <<<<"event", from>>, <<"stats_update", 0>>>>
        ELSE <<<<"event", from>>>>)
       \o PublishedFor(d, from + 1, to)

\* what does hold: each new Event is published once, after its insert, and
\* the stats after the Events of assistant kind
PersistThenPublish ==
  [][pass'.op = "parseFile" =>
       [k \in 1..Len(wsOut') |-> <<wsOut'[k].type, wsOut'[k].id>>]
         = PublishedFor(db', Len(db.events) + 1, Len(db'.events))]_vars

\* C24: Events are append-only and Sessions are never deleted: in every step
\* of the engine, a file pass or a push event with all the Store methods they
\* call, every stored Event stays at its place with every field as it was,
\* and every Session that exists still exists.
EventsAppendOnly ==
  [][/\ Len(db'.events) >= Len(db.events)
     /\ \A i \in 1..Len(db.events) : db'.events[i] = db.events[i]
     /\ DOMAIN db.sessions \subseteq DOMAIN db'.sessions]_vars

\* C24 witness: a pass has stored a second Event for the Session of a stored
\* hook Event and has added to that Session's totals
EventKeptWhileSessionGrew ==
  /\ pass.op = "parseFile"
  /\ Len(db.events) = 2
  /\ db.events[1].event_type = "hook"
  /\ db.events[2].event_type = "transcript"
  /\ db.events[2].session_id = db.events[1].session_id
  /\ db.sessions[db.events[1].session_id].total_output_tokens > 0

\* C21: a push record with session id and event name leaves its Session in
\* the Store and adds exactly one Event, a hook Event of that session without
\* uuid, token counts and cost, after the Events already stored; the running
\* totals of every Session are as before (zero for a Session it created); and
\* its messages are the event message of the new row followed by stats_update.
PushRecordStoredOnce ==
  [][(pass'.op = "postEvent" /\ pass'.path # NoStr) =>
       LET id == Len(db.events) + 1 IN
       /\ pass'.path \in DOMAIN db'.sessions
       /\ Len(db'.events) = id
       /\ \A i \in 1..Len(db.events) : db'.events[i] = db.events[i]
       /\ db'.events[id].session_id = pass'.path
       /\ db'.events[id].event_type = "hook"
       /\ db'.events[id].uuid = NoStr
       /\ db'.events[id].tokens_input = Absent
       /\ db'.events[id].tokens_output = Absent
       /\ db'.events[id].cache_read_tokens = Absent
       /\ db'.events[id].cache_write_tokens = Absent
       /\ db'.events[id].cost = Absent
       /\ DOMAIN db'.sessions = DOMAIN db.sessions \cup {pass'.path}
       /\ \A s \in DOMAIN db'.sessions :
            TotalsOf(db')[s] = IF s \in DOMAIN db.sessions THEN TotalsOf(db)[s]
                               ELSE <<0, 0, 0, 0, 0>>
       /\ Len(wsOut') = 2
       /\ wsOut'[1].type = "event" /\ wsOut'[1].id = id
       /\ wsOut'[2].type = "stats_update"]_vars

\* C21 witness: a push record was stored for a Session whose totals a pass
\* had set, beside the Event of that pass
PushIntoSessionWithTotals ==
  /\ pass.op = "postEvent"
  /\ Len(db.events) = 2
  /\ db.events[1].event_type = "transcript"
  /\ db.events[2].event_type = "hook"
  /\ db.events[2].session_id = db.events[1].session_id
  /\ db.sessions[pass.path].total_cost_usd > 0
  /\ wsOut # <<>>

\* C23: in every reachable state, after whatever upsertMcpTool calls file
\* records and push records have caused, no two Per-Tool Statistics have the
\* same session id and tool name, and in each the success count and the error
\* count sum to the invocation count.
ToolStatisticsConsistent ==
  /\ \A i, j \in 1..Len(db.mcp_tools) :
       (db.mcp_tools[i].session_id = db.mcp_tools[j].session_id
        /\ db.mcp_tools[i].tool_name = db.mcp_tools[j].tool_name) => i = j
  /\ \A i \in 1..Len(db.mcp_tools) :
       /\ db.mcp_tools[i].invocation_count >= 1
       /\ db.mcp_tools[i].success_count >= 0
       /\ db.mcp_tools[i].error_count >= 0
       /\ db.mcp_tools[i].success_count + db.mcp_tools[i].error_count
            = db.mcp_tools[i].invocation_count

\* C23 witness: the statistic of one tool in one session has counted the two
\* calls of an assistant record and a failed call reported by a push record
ToolCountedBothWays ==
  \E i \in 1..Len(db.mcp_tools) :
    /\ db.mcp_tools[i].invocation_count = 3
    /\ db.mcp_tools[i].success_count = 2
    /\ db.mcp_tools[i].error_count = 1
    /\ \E k \in 1..Len(db.events) :
         db.events[k].event_type = "hook"
         /\ db.events[k].session_id = db.mcp_tools[i].session_id

\* C28: the Cursor of a path is written only by the last statement of a pass
\* over that path, after every line of the pass has been processed, and is
\* then the size the pass found, whether or not lines of it failed; by then
\* every record in those bytes of the file has been handed to the classifier;
\* and a pass that dies before its end leaves every Cursor as it was.
CursorWrittenAtPassEnd ==
  [][/\ \A p \in Paths :
          (getFilePosition(db', p) # getFilePosition(db, p)
           \/ (p \in DOMAIN db'.file_positions /\ p \notin DOMAIN db.file_positions))
          => (pass'.op = "setFilePosition" /\ pass'.path = p)
     /\ pass'.op = "setFilePosition" =>
          LET p == reading.path IN
          /\ reading.pc = "lines" /\ reading.lines = <<>>
          /\ reading'.pc = "idle"
          /\ p \in DOMAIN db'.file_positions
          /\ db'.file_positions[p] = reading.size
          /\ \A i \in 1..Len(files[p]) :
               (IsRecord(files[p][i])
                /\ OffsetOf(files[p], i) + files[p][i].len + 1 <= reading.size)
               => <<SessionIdOf(p), files[p][i]>> \in classified
     /\ pass'.op = "crash" => db' = db]_vars

\* C28 witness: a pass over a file has set the Cursor to the size it found
\* after an earlier pass over the same file died in its loop, with an Event
\* stored and the Cursor still absent; the file has a malformed line and has
\* grown since the pass read it
CursorSetAfterCrashedPass ==
  /\ pass.op = "setFilePosition"
  /\ reading.crashes = 1 /\ reading.crashedPath = pass.path
  /\ \E i \in 1..Len(files[pass.path]) : ~files[pass.path][i].json
  /\ pass.fed # <<>>
  /\ pass.startPosition = 0
  /\ getFilePosition(db, pass.path) = pass.size
  /\ pass.size < Size(files[pass.path])

\* C30 (as claimed): every stored Event, file-derived or push-derived, has a
\* content of at most 5,000 characters, and every event message handed to the
\* broadcaster carries at most 500 characters of content.
ContentCapped ==
  /\ [](\A i \in 1..Len(db.events) : db.events[i].content <= 5000)
  /\ [][\A k \in 1..Len(wsOut') :
          wsOut'[k].type = "event" => wsOut'[k].content <= 500]_vars

\* what does hold: the caps on the Events and messages of file records; the
\* content of a push record is capped at 1,000 characters when it is the tool
\* input, in the Store and in the message alike, and not at all when it is
\* the prompt
FileContentCapped ==
  /\ [](\A i \in 1..Len(db.events) :
          /\ db.events[i].event_type = "transcript" => db.events[i].content <= 5000
          /\ (db.events[i].event_type = "hook"
              /\ db.events[i].hook_event_name # "UserPromptSubmit")
             => db.events[i].content <= 1000)
  /\ [][pass'.op = "parseFile" =>
          \A k \in 1..Len(wsOut') : wsOut'[k].content <= 500]_vars

\* the models of the pricing table, and the cost of a usage at a pricing tuple
RecognizedModels ==
  {"claude-opus-4-5-20251101", "claude-sonnet-4-20250514",
   "claude-3-5-sonnet-20241022", "claude-3-5-haiku-20241022"}

CostAt(pricing, usage) ==
  OrZero(usage.input_tokens) * pricing.inputPerMillion
  + OrZero(usage.output_tokens) * pricing.outputPerMillion
  + OrZero(usage.cache_creation_input_tokens) * pricing.cacheWritePerMillion
  + OrZero(usage.cache_read_input_tokens) * pricing.cacheReadPerMillion

\* C25: for every recognized model and every usage with non-negative token
\* counts, absent counts taken as 0, calculateCost returns the sum of the four
\* token counts each times its price per million of that model's pricing
\* tuple; claude-sonnet-4-20250514 with 2,000,000 input and 100,000 output
\* tokens costs 7.50 (750,000,000 units of 1e-8 USD).
CostIsSumOfFourRates ==
  (call.op = "calculateCost" /\ call.model \in RecognizedModels) =>
    /\ call.result = CostAt(MODEL_PRICING(call.model), call.usage)
    /\ (call.model = "claude-sonnet-4-20250514" /\ call.usage = ExampleUsage)
         => call.result = 750000000
    /\ (call.model = "claude-sonnet-4-20250514" /\ call.usage = Usage(1, 0, 0, 0))
         => call.result = 300

\* C25 witness: the cost of the worked example has been computed
ExampleCostComputed ==
  /\ call.op = "calculateCost"
  /\ call.model = "claude-sonnet-4-20250514"
  /\ call.usage = ExampleUsage
  /\ call.result = 750000000

\* C26 (as claimed): for every model identifier that is not one of the
\* recognized models of the pricing table, calculateCost returns the cost
\* computed with the default pricing tuple.
UnknownModelCostsDefault ==
  (call.op = "calculateCost" /\ call.model \notin RecognizedModels) =>
    call.result = CostAt(MODEL_PRICING("default"), call.usage)

\* what does hold: the same for every identifier that Object.prototype does
\* not define
UnknownOwnModelCostsDefault ==
  (call.op = "calculateCost" /\ call.model \notin RecognizedModels
   /\ call.model \notin InheritedNames) =>
    call.result = CostAt(MODEL_PRICING("default"), call.usage)

\* the result is the gap-filled series of the days last days ending today
GapFilled(d, days, today, result) ==
  /\ Len(result) = days
  /\ \A k \in 1..Len(result) :
       LET date == today - days + k
           S == {s \in DOMAIN d.sessions : LocalDate(d.sessions[s].started_at) = date}
       IN  /\ result[k].date = date
           /\ result[k].inputTokens = SumColumn(d, S, "total_input_tokens")
           /\ result[k].outputTokens = SumColumn(d, S, "total_output_tokens")
           /\ result[k].cacheReadTokens = SumColumn(d, S, "total_cache_read_tokens")
           /\ result[k].cacheWriteTokens = SumColumn(d, S, "total_cache_write_tokens")
           /\ result[k].costUsd = SumColumn(d, S, "total_cost_usd")
           /\ S = {} => (result[k].costWithoutCache = 0 /\ result[k].cacheSavings = 0)

\* C27 (as claimed): for every N >= 1 and every set of days with activity,
\* getCostsByDay(N) returns exactly N entries, one for each of the N
\* consecutive local calendar days ending today, in ascending order of date,
\* with zeros for a day without activity and the sums over the Sessions
\* started that day for a day with activity.
GapFilledDaySeries ==
  call.op = "getCostsByDay" => GapFilled(db, call.days, Today, call.result)

\* what does hold: the same in a time zone in which every day of the range
\* before today has a local midnight
GapFilledWhereMidnightsExist ==
  (call.op = "getCostsByDay"
   /\ \A day \in call.skipped : day = Today \/ day <= Today - call.days) =>
    GapFilled(db, call.days, Today, call.result)

\* C31: a session-end signal sets the end timestamp of its Session to the
\* timestamp of the signal, and in every step of the engine, a file pass or a
\* push event with every upsertSession call they make, a Session whose end
\* timestamp is set still has an end timestamp afterwards.
EndTimestampSetNeverCleared ==
  [][/\ \A s \in DOMAIN db.sessions :
          db.sessions[s].ended_at # 0 =>
            (s \in DOMAIN db'.sessions /\ db'.sessions[s].ended_at # 0)
     /\ (pass'.op = "postEvent" /\ Len(db'.events) > Len(db.events)
         /\ db'.events[Len(db'.events)].hook_event_name = "SessionEnd") =>
          db'.sessions[pass'.path].ended_at = pass'.timestamp]_vars

\* C31 witness: a pass has stored a record for a Session that a session-end
\* signal had ended before, and the end timestamp is that of the signal
EndedSessionFedAgain ==
  /\ pass.op = "parseFile"
  /\ Len(db.events) = 2
  /\ db.events[1].hook_event_name = "SessionEnd"
  /\ db.events[2].event_type = "transcript"
  /\ db.events[2].session_id = db.events[1].session_id
  /\ db.sessions[db.events[1].session_id].ended_at = db.events[1].timestamp

\* the counts of the Per-Tool Statistic of a session and a tool: invocations,
\* successes, failures; zeros when the Store has no such row
ToolCounts(d, sessionId, toolName) ==
  IF McpToolRows(d, sessionId, toolName) = {} THEN <<0, 0, 0>>
  ELSE LET row == d.mcp_tools[CHOOSE i \in McpToolRows(d, sessionId, toolName) : TRUE]
       IN  <<row.invocation_count, row.success_count, row.error_count>>

\* C32 (as claimed): a push record reporting a finished call of an mcp tool
\* adds one invocation to the statistic of its session and tool, and counts
\* it as a success exactly when the tool response carries no error flag,
\* whether the response is absent, an object or a string, and as a failure
\* otherwise; the calls a file pass counts, whose records carry no result,
\* are counted as successes.
ToolSuccessIffNoErrorFlag ==
  [][/\ (pass'.op = "postEvent" /\ Len(db'.events) > Len(db.events)
         /\ db'.events[Len(db'.events)].hook_event_name = "PostToolUse"
         /\ startsWithMcp(db'.events[Len(db'.events)].tool_name)) =>
          LET e == db'.events[Len(db'.events)]
              before == ToolCounts(db, e.session_id, e.tool_name)
              after == ToolCounts(db', e.session_id, e.tool_name)
          IN  after = IF e.tool_response # "is_error"
                      THEN <<before[1] + 1, before[2] + 1, before[3]>>
                      ELSE <<before[1] + 1, before[2], before[3] + 1>>
     /\ pass'.op = "parseFile" =>
          \A s \in SessionIds : \A t \in McpToolNames :
            LET before == ToolCounts(db, s, t)
                after == ToolCounts(db', s, t)
            IN  after[2] - before[2] = after[1] - before[1] /\ after[3] = before[3]]_vars

\* what does hold of a push record: the invocation is counted once, as a
\* success when the response is absent or an object without the error flag,
\* as a failure when it is an object with the flag or is not an object
ToolSuccessByShape ==
  [][(pass'.op = "postEvent" /\ Len(db'.events) > Len(db.events)
      /\ db'.events[Len(db'.events)].hook_event_name = "PostToolUse"
      /\ startsWithMcp(db'.events[Len(db'.events)].tool_name)) =>
       LET e == db'.events[Len(db'.events)]
           before == ToolCounts(db, e.session_id, e.tool_name)
           after == ToolCounts(db', e.session_id, e.tool_name)
       IN  after = IF e.tool_response \in {NoStr, "object"}
                   THEN <<before[1] + 1, before[2] + 1, before[3]>>
                   ELSE <<before[1] + 1, before[2], before[3] + 1>>]_vars

\* the Store without the ids of its rows: the Sessions, the Events and the
\* Per-Tool Statistics as collections, and the Cursors
EventBag(events) ==
  [e \in {events[i] : i \in 1..Len(events)} |->
     Cardinality({i \in 1..Len(events) : events[i] = e})]

Unordered(d) ==
  [sessions |-> d.sessions, events |-> EventBag(d.events),
   mcp_tools |-> {d.mcp_tools[i] : i \in 1..Len(d.mcp_tools)},
   file_positions |-> d.file_positions]

\* the operations of the engine on a given Store: a pass over a transcript as
\* it is now, and a push record that reports a failed call of an mcp tool; the
\* Store after each
Operations ==
  {[kind |-> "pass", path |-> p, body |-> HookBody(NoStr, NoStr, NoStr, "absent", 0),
    session |-> SessionIdOf(p)] : p \in Paths}
  \cup {[kind |-> "push", path |-> NoStr, body |-> b, session |-> b.session_id] :
          b \in {x \in ToolBodies : x.hook_event_name = "PostToolUse"
                                     /\ startsWithMcp(x.tool_name)
                                     /\ x.tool_response # "object"}}

After(d, operation) ==
  LET now == CHOOSE n \in Nows : TRUE IN
  IF operation.kind = "pass"
  THEN PassOver(d, operation.path, files[operation.path], now)
  ELSE LET body == operation.body
           event == IF body.timestamp = 0 THEN [body EXCEPT !.timestamp = now] ELSE body
       IN  processHookEvent(d, event, now).db

\* what a Store holds of a session: its row, its Events, its statistics
OfSession(d, s) ==
  [row |-> IF s \in DOMAIN d.sessions THEN <<d.sessions[s]>> ELSE <<>>,
   events |-> SelectSeq(d.events, LAMBDA e : e.session_id = s),
   mcp_tools |-> SelectSeq(d.mcp_tools, LAMBDA t : t.session_id = s)]

\* an operation of one session leaves what the Store holds of the others
FrameOfOtherSessions ==
  [][(pass'.op \in {"parseFile", "postEvent"}) =>
       LET a == IF pass'.op = "parseFile" THEN SessionIdOf(pass'.path) ELSE pass'.path
       IN  \A b \in SessionIds \ {a} : OfSession(db', b) = OfSession(db, b)]_vars

\* two operations of different sessions give the same Store in both orders
Commute(d, x, y) == Unordered(After(After(d, x), y)) = Unordered(After(After(d, y), x))

\* the identifiers of the records an operation hands to the classifier
UuidsOf(operation) ==
  IF operation.kind = "pass"
  THEN {files[operation.path][i].uuid : i \in 1..Len(files[operation.path])} \ {NoStr}
  ELSE {}

\* C33 (as claimed): an operation for session A leaves the Session row, the
\* Events and the Per-Tool Statistics of every other session as they were,
\* and operations for different sessions commute: from every reachable Store,
\* a pass or push record of A and one of B give the same Store in both orders.
\* (Commute is symmetric: x is taken from the operations of s1.)
SessionsIndependent ==
  /\ FrameOfOtherSessions
  /\ [](\A x, y \in Operations :
          (x.session = "s1" /\ y.session # "s1") => Commute(db, x, y))

\* what does hold: the frame, and the commutation of operations whose records
\* share no identifier
SessionsIndependentWithoutSharedRecords ==
  /\ FrameOfOtherSessions
  /\ [](\A x, y \in Operations :
          (x.session = "s1" /\ y.session # "s1" /\ UuidsOf(x) \cap UuidsOf(y) = {})
            => Commute(db, x, y))

\* C33 witness: a push record of s2 was stored beside the Session, the Event
\* and the statistic that a pass had stored for s1, and both sessions have a
\* statistic of the same tool
PushBesideOtherSession ==
  /\ pass.op = "postEvent" /\ pass.path = "s2"
  /\ Len(db.events) = 2
  /\ db.events[1].session_id = "s1" /\ db.events[2].session_id = "s2"
  /\ db.sessions["s1"].total_cost_usd > 0
  /\ ToolCounts(db, "s1", McpTool)[1] > 0
  /\ ToolCounts(db, "s2", McpTool)[1] > 0

\* the five running totals a call of upsertSession supplies, absent ones as 0
SuppliedTotals(session) ==
  <<OrZero(session.total_input_tokens), OrZero(session.total_output_tokens),
    OrZero(session.total_cache_read_tokens), OrZero(session.total_cache_write_tokens),
    OrZero(session.total_cost_usd)>>

\* C34 (as claimed): upsertSession for a session id the Store has no row of
\* inserts a full row: project path, branch, start and end timestamp and
\* version as supplied, and each of the five running totals equal to the
\* delta the call carries (0 where it carries none).
CreatingCallStoresEveryField ==
  [][(call'.op = "upsertSession" /\ call'.session.id \notin DOMAIN db.sessions) =>
       LET session == call'.session
           row == db'.sessions[session.id]
       IN  /\ DOMAIN db'.sessions = DOMAIN db.sessions \cup {session.id}
           /\ row.project_path = session.project_path
           /\ row.git_branch = session.git_branch
           /\ row.version = session.version
           /\ row.ended_at = session.ended_at
           /\ row.started_at = IF session.started_at # 0 THEN session.started_at
                               ELSE CHOOSE n \in Nows : TRUE
           /\ TotalsOf(db')[session.id] = SuppliedTotals(session)]_vars

\* what does hold of a creating call: the row has the supplied scalar fields
\* and the supplied input, output and cost totals; the two cache totals are 0
\* whatever the call carries
CreatingCallDropsCacheTotals ==
  [][(call'.op = "upsertSession" /\ call'.session.id \notin DOMAIN db.sessions) =>
       LET session == call'.session
           row == db'.sessions[session.id]
           d == SuppliedTotals(session)
       IN  /\ row.project_path = session.project_path
           /\ row.git_branch = session.git_branch
           /\ row.version = session.version
           /\ row.ended_at = session.ended_at
           /\ TotalsOf(db')[session.id] = <<d[1], d[2], 0, 0, d[5]>>]_vars

\* the sum of a column of the Events of a session, NULL counting as 0
RECURSIVE SumEvents(_, _, _)
SumEvents(events, s, column) ==
  IF events = <<>> THEN 0
  ELSE (IF Head(events).session_id = s THEN OrZero(Head(events)[column]) ELSE 0)
       + SumEvents(Tail(events), s, column)

TotalsMatchEvents(d) ==
  \A s \in DOMAIN d.sessions :
    TotalsOf(d)[s] =
      <<SumEvents(d.events, s, "tokens_input"), SumEvents(d.events, s, "tokens_output"),
        SumEvents(d.events, s, "cache_read_tokens"),
        SumEvents(d.events, s, "cache_write_tokens"), SumEvents(d.events, s, "cost")>>

\* C35 (as claimed): after any sequence of file passes and push events of one
\* engine process, each of the five running totals of every Session is the
\* sum of the corresponding field over the Events stored for that session.
TotalsAreSumsOverEvents == TotalsMatchEvents(db)

\* what does hold: in a pass all of whose records carry a timestamp, and in a
\* push event, totals that were the sums over the Events before are so after
TotalsAreSumsWhenInsertsSucceed ==
  [][(TotalsMatchEvents(db)
      /\ \A i \in 1..Len(pass'.fed) : pass'.fed[i].timestamp # 0)
       => TotalsMatchEvents(db')]_vars

\* the processing of a record fails after the line was parsed: extractTokens
\* throws on a missing usage object, or the INSERT of the Event is rejected
FailsAfterParse(entry) ==
  \/ entry.type = "assistant" /\ ~entry.usage.present
  \/ entry.type \in {"user", "assistant"} /\ entry.timestamp = 0

OnlyFailingRecords(fed) ==
  fed # <<>> /\ \A i \in 1..Len(fed) : FailsAfterParse(fed[i])

\* C36 (as claimed): the processing of a file record is all-or-nothing: a
\* pass all of whose records fail after the line was parsed leaves the
\* Sessions, the Events and the Per-Tool Statistics as they were before it,
\* however often the records are read.
RecordAllOrNothing ==
  [][(pass'.op = "parseFile" /\ OnlyFailingRecords(pass'.fed)) =>
       StoreOf(db') = StoreOf(db)]_vars

\* what does hold of such a pass: no Event is stored and nothing is broadcast
FailedRecordStoresNoEvent ==
  [][(pass'.op = "parseFile" /\ OnlyFailingRecords(pass'.fed)) =>
       (db'.events = db.events /\ wsOut' = <<>>)]_vars

\* C37 (as claimed): in every reachable Store every Event refers to a Session
\* that exists, and the start timestamp of a Session is not later than the
\* timestamp of any of its Events, timestamps taken as the instants they
\* denote.
StartNotAfterEvents ==
  \A i \in 1..Len(db.events) :
    /\ db.events[i].session_id \in DOMAIN db.sessions
    /\ Instant(db.sessions[db.events[i].session_id].started_at)
         <= Instant(db.events[i].timestamp)

\* what does hold: every Event refers to a Session that exists, and the start
\* timestamp of the Session is not greater, as a string, than the timestamp
\* of the Event
StartNotAfterEventsAsStrings ==
  \A i \in 1..Len(db.events) :
    /\ db.events[i].session_id \in DOMAIN db.sessions
    /\ db.sessions[db.events[i].session_id].started_at <= db.events[i].timestamp

\* C38: no step of the engine, a file pass or a push event with every
\* upsertSession call they make, changes the project path, the branch label
\* or the producer version of a Session that exists: they stay as the
\* creating call set them, null for a Session a push event created, whatever
\* the file records processed later carry.
SessionMetaFixedAtCreation ==
  [][\A s \in DOMAIN db.sessions :
       /\ s \in DOMAIN db'.sessions
       /\ db'.sessions[s].project_path = db.sessions[s].project_path
       /\ db'.sessions[s].git_branch = db.sessions[s].git_branch
       /\ db'.sessions[s].version = db.sessions[s].version]_vars

\* C38 witness: a pass has stored a record carrying cwd, branch and version
\* for a Session that a push event had created, and the three fields of the
\* Session are null
PushCreatedSessionKeepsNulls ==
  /\ pass.op = "parseFile"
  /\ Len(db.events) = 2
  /\ db.events[1].event_type = "hook"
  /\ db.events[2].event_type = "transcript"
  /\ db.events[2].session_id = db.events[1].session_id
  /\ \E i \in 1..Len(pass.fed) : pass.fed[i].cwd # NoStr /\ pass.fed[i].uuid = db.events[2].uuid
  /\ LET row == db.sessions[db.events[1].session_id]
     IN  row.project_path = NoStr /\ row.git_branch = NoStr /\ row.version = NoStr

\* the five running totals summed over all Sessions of a Store
RECURSIVE SumTotals(_, _)
SumTotals(d, S) ==
  IF S = {} THEN <<0, 0, 0, 0, 0>>
  ELSE LET s == CHOOSE x \in S : TRUE
           t == TotalsOf(d)[s]
           rest == SumTotals(d, S \ {s})
       IN  [k \in 1..5 |-> t[k] + rest[k]]

GrandTotals(d) == SumTotals(d, DOMAIN d.sessions)

\* C39: when the same files are ingested, the passes over them running in
\* the one order or the other, the number of stored Events and the tokens and
\* the cost summed over all Sessions are the same, whether or not the files
\* share records with the same uuid.
GrandTotalsOrderIndependent ==
  call.op = "ingest" =>
    /\ Len(call.forth.events) = Len(call.back.events)
    /\ GrandTotals(call.forth) = GrandTotals(call.back)

\* C39 witness: both files hold the record u1 beside records of their own;
\* it is stored once in either order, for s1 in the one and for s2 in the
\* other, and the totals of s1 differ between the orders
SharedRecordAttributedByOrder ==
  /\ call.op = "ingest"
  /\ \A p \in Paths : \E i \in 1..Len(call.contents[p]) : call.contents[p][i] = AssistantA
  /\ \A p \in Paths : \E i \in 1..Len(call.contents[p]) : call.contents[p][i] # AssistantA
  /\ Cardinality(EventsWithUuid(call.forth, "u1")) = 1
  /\ Cardinality(EventsWithUuid(call.back, "u1")) = 1
  /\ call.forth.events[CHOOSE i \in EventsWithUuid(call.forth, "u1") : TRUE].session_id = "s1"
  /\ call.back.events[CHOOSE i \in EventsWithUuid(call.back, "u1") : TRUE].session_id = "s2"
  /\ TotalsOf(call.forth)["s1"] # TotalsOf(call.back)["s1"]

\* the ids of the event messages among the messages of a step, in order
EventIds(out) ==
  LET events == SelectSeq(out, LAMBDA m : m.type = "event")
  IN  [k \in 1..Len(events) |-> events[k].id]

\* C40: in every step of the engine, a file pass or a push event, the event
\* messages handed to the broadcaster are, in order, one for each Event the
\* step has stored, bearing the id of its row: no message refers to a row
\* that is not stored or that an earlier step stored, so each Event is
\* broadcast at most once, and a step that stores nothing (records that are
\* duplicates, of no recognized type, or whose processing fails, a file read
\* again) hands over no event message.
EventBroadcastOncePersisted ==
  [][/\ Len(db'.events) >= Len(db.events)
     /\ EventIds(wsOut') =
          [k \in 1..(Len(db'.events) - Len(db.events)) |-> Len(db.events) + k]]_vars

\* C40 witness: a pass has read a file again that holds a stored record and
\* a record whose processing fails, and has handed over no message
RereadBroadcastsNothing ==
  /\ pass.op = "parseFile" /\ pass.startPosition > 0
  /\ Len(pass.fed) = 2
  /\ Stored(db, pass.fed[1])
  /\ FailsAfterParse(pass.fed[2])
  /\ Len(db.events) = 1
  /\ wsOut = <<>>

====
